---- MODULE Spec2Model ----
(***************************************************************************)
(* FlowSpec: the plan learning / replay engine of the LangGraph test       *)
(* runner (langgraph-runner.ts, kept here as src/unnamed/part_000) and the *)
(* web server operations that persist learned plans (src/web-ui.ts).       *)
(*                                                                         *)
(* Strings of the program are kept as strings; JavaScript's undefined and  *)
(* null are the strings Undef and Null; a missing object is NoStep/NoPlan. *)
(* A page snapshot is a sequence of lines, a line a sequence of tokens.    *)
(***************************************************************************)
EXTENDS Integers, Sequences, FiniteSets, TLC

VARIABLES
    plan,           \* PlanStore: the ExecutionPlan object upsertPlanStep mutates
    upsertLog,      \* history: the steps handed to upsertPlanStep, in call order
    maxRetries,     \* LangGraphTestRunner.maxRetries
    memory,         \* LangGraphTestRunner.memory (Map key -> value)
    memoryFile,     \* the document at MEMORY_FILE_PATH
    state,          \* the TestState threaded through the step workflow
    attempt,        \* runStepWithRetry: the local `attempt`
    pc,             \* position of the suite run / of the plain-mode workflow
    invoked,        \* history: step index -> number of stepApp.invoke calls
    planFile,       \* the plan document of the scenario under PLANS_DIR
    req,            \* the web server request in flight (its locals)
    oracle,         \* history: kinds of LLM oracle calls made by the request in flight
    finished,       \* history: number of requests the server has completed
    exitCode,       \* run.ts: <<>> while the process runs, <<c>> once it ended with code c
    evalIn,         \* the verification spec and page text handed to the evaluator
    evalOut,        \* history: the evaluator's calls (memory read, result), in order
    trial,          \* one step with the history, memory and answers it is run against
    outcome,        \* what a learning run and a plain attempt made of the trial
    files,          \* the scenario files on disk: file name -> its lines
    parsed,         \* what parseTestFile made of the root scenario file
    wire,           \* history: the transport calls and waits of the runs made
    mcpClient1,     \* LangGraphTestRunner.mcpClient1: null or the state of its Client
    mcpClient2,     \* LangGraphTestRunner.mcpClient2
    sharedRunner,   \* web-ui.ts: whether the module holds a shared runner
    runnerInitialized, \* web-ui.ts: the flag of getSharedRunner
    lastCall,       \* history: the last call made on the runner and how it ended
    handlers        \* the locals of the plan-run handlers that overlap

planStoreVars == <<plan, upsertLog>>
runnerVars == <<maxRetries, memory, memoryFile>>
suiteVars == <<state, attempt, pc, invoked>>
serverVars == <<planFile, req, oracle, finished>>
cliVars == <<exitCode>>
evalVars == <<evalIn, evalOut>>
modeVars == <<trial, outcome>>
parseVars == <<files, parsed>>
wireVars == <<wire>>
sessionVars == <<mcpClient1, mcpClient2, sharedRunner, runnerInitialized, lastCall>>
overlapVars == <<handlers>>
vars == <<plan, upsertLog, maxRetries, memory, memoryFile,
          state, attempt, pc, invoked, planFile, req, oracle, finished,
          exitCode, evalIn, evalOut, trial, outcome, files, parsed, wire,
          mcpClient1, mcpClient2, sharedRunner, runnerInitialized, lastCall,
          handlers>>

-----------------------------------------------------------------------------
(* Bounds of the model *)

\* largest failCount a step handed to upsertPlanStep carries in PlanStoreSpec
MaxFailCount == 1
\* number of upsertPlanStep calls explored in PlanStoreSpec
MaxUpserts == 3
\* longest scenario (number of steps) run by runTestSuite in SuiteSpec
MaxSteps == 2
\* number of requests the web server handles in Spec
MaxRequests == 3

-----------------------------------------------------------------------------
(* JavaScript values *)

Undef == "undefined"
Null == "null"
NoStep == [none |-> TRUE]
NoPlan == [noPlan |-> TRUE]
AUTO_PASS == "__AUTO_PASS__"

Min(a, b) == IF a < b THEN a ELSE b
Max(a, b) == IF a < b THEN b ELSE a

\* Array.prototype.findIndex, 1-based; 0 when no element satisfies P
FindIndex(s, P(_)) ==
    IF \E k \in 1..Len(s) : P(s[k])
    THEN CHOOSE k \in 1..Len(s) : P(s[k]) /\ \A j \in 1..(k - 1) : ~P(s[j])
    ELSE 0

-----------------------------------------------------------------------------
(* Instruction lines.  A line is kept in parsed form: `prefix` is the      *)
(* browser-routing token ("*1 " / "*2 ", 0 when absent), `text` the        *)
(* instruction, `expected` the text after >>> (AUTO_PASS when the line has *)
(* no >>>).  Two lines are the same string iff the records are equal.      *)

(* `delayTok` is the N of a [[N]] token (NoDelayTok when absent).           *)

NoDelayTok == -1

Line(prefix, text, delayTok, expected) ==
    [prefix |-> prefix, text |-> text, delayTok |-> delayTok, expected |-> expected]

LoginLine == Line(0, "click Login", NoDelayTok, "login form is shown")
StoreLine == Line(2, "remember the order code", 500, AUTO_PASS)
ScrollLine == Line(0, "scroll down", NoDelayTok, AUTO_PASS)

Lines == {LoginLine, StoreLine, ScrollLine}

-----------------------------------------------------------------------------
(* Plan Store *)

\* export function findPlanStep(plan, instruction)
FindPlanStep(p, instruction) ==
    IF p = NoPlan THEN NoStep
    ELSE LET idx == FindIndex(p.steps, LAMBDA s : s.originalInstruction = instruction)
         IN  IF idx = 0 THEN NoStep ELSE p.steps[idx]

\* a slip upsertPlanStep could make: always push
UpsertAlwaysAppends(p, step) ==
    [p EXCEPT !.steps = Append(p.steps, step), !.updatedAt = "now"]

\* export function upsertPlanStep(plan, step)
UpsertPlanStep(p, step) ==
    LET idx == FindIndex(p.steps,
                         LAMBDA s : s.originalInstruction = step.originalInstruction)
    IN  IF idx > 0
        THEN [p EXCEPT !.steps = [p.steps EXCEPT ![idx] = step], !.updatedAt = "now"]
        ELSE [p EXCEPT !.steps = Append(p.steps, step), !.updatedAt = "now"]

\* the plan object both web-ui.ts call sites create when loadPlan returns null
EmptyPlan ==
    [scenarioName |-> "scenario.txt", createdAt |-> "now", updatedAt |-> "now",
     steps |-> <<>>]

-----------------------------------------------------------------------------
(* Page snapshots: a page is a sequence of lines, a line a sequence of     *)
(* tokens [k, v] with k one of "role", "text", "ref" ([ref=v]).            *)

Tok(k, v) == [k |-> k, v |-> v]

\* the case folding of the regex flag 'i', on the words the model uses
Lower(s) ==
    CASE s = "Login" -> "login"
      [] s = "LOGIN" -> "login"
      [] s = "Button" -> "button"
      [] OTHER -> s

BlankPage == <<>>
LoginPage == << <<Tok("role", "button"), Tok("text", "Login"), Tok("ref", "e1")>>,
                <<Tok("text", "order code"), Tok("text", "A-17")>>,
                <<Tok("role", "textbox"), Tok("text", "Code field"), Tok("ref", "e4")>> >>
FormPage == << <<Tok("text", "login form is shown")>>,
               <<Tok("ref", "e9"), Tok("text", "LOGIN"), Tok("role", "link")>> >>
ErrorPage == << <<Tok("text", "error")>>, <<Tok("text", "login form is shown")>> >>

Pages == {BlankPage, LoginPage, FormPage, ErrorPage}

\* outcomes of a browser_snapshot call: the page text, or a rejected call
Snapshot(ok, text) == [ok |-> ok, text |-> text]
Snapshots == {Snapshot(TRUE, p) : p \in Pages} \cup {Snapshot(FALSE, BlankPage)}

\* new RegExp(p, 'i') throws on a malformed pattern
ValidRegex(p) == p /= "("

\* regex.test(pageContent): the pattern occurs in the snapshot text
PageMatches(p, page) ==
    /\ ValidRegex(p)
    /\ \E l \in 1..Len(page) : \E t \in 1..Len(page[l]) :
          /\ page[l][t].k \in {"text", "role"}
          /\ Lower(page[l][t].v) = Lower(p)

\* the characters of the class [.*+?^${}()|[\]\\]
RegexMeta == {".", "*", "+", "?", "^", "$", "{", "}", "(", ")", "|", "[", "]", "\\"}

\* a slip getVerificationPatterns could make: the text is used as a pattern
\* as it is, the way the JSON branch uses `[expectedResult]`
EscapeNothing(s) == s

\* the replacement of s from character i on: '\\$&' for every match
RECURSIVE EscapeFrom(_, _)
EscapeFrom(s, i) ==
    IF i > Len(s) THEN ""
    ELSE LET c == SubSeq(s, i, i)
         IN  (IF c \in RegexMeta THEN "\\" \o c ELSE c) \o EscapeFrom(s, i + 1)

\* s.replace(/[.*+?^${}()|[\]\\]/g, '\\$&')
EscapeRegExp(s) == EscapeFrom(s, 1)

-----------------------------------------------------------------------------
(* Memory Store *)

MemKeys == {"code", "user"}
EmptyMemory == [k \in MemKeys |-> Undef]

\* the runner's Map together with the document it is saved to
Mem(map, file) == [map |-> map, file |-> file]

\* storeInMemory: memory.set(key, value); saveMemoryToFile(memory)
StoreInMemory(mem, key, value) ==
    LET map == [k \in MemKeys |-> IF k = key THEN value ELSE mem.map[k]]
    IN  Mem(map, map)

\* a slip the memory lookup could make: one fixed key is read whatever the
\* key asked for
ReadFixedKey(mem, key) == mem.map["code"]

\* readFromMemory: memory.get(key)
ReadFromMemory(mem, key) ==
    IF key \in MemKeys THEN mem.map[key] ELSE Undef

-----------------------------------------------------------------------------
(* Actions proposed by the oracle and recorded in plans *)

RawAction(type, element, ref, value, memoryKey, url, key) ==
    [type |-> type, element |-> element, ref |-> ref, value |-> value,
     memoryKey |-> memoryKey, url |-> url, key |-> key]

ClickLogin == RawAction("click", "Login", "e1", Undef, Undef, Undef, Undef)
StoreCode == RawAction("memory_store", Undef, Undef, "A-17", Undef, Undef, "code")
FillCode == RawAction("fill", "Code field", "e4", Undef, "code", Undef, Undef)

\* the strings executeMCPAction returns
ActionStr(kind, tool, element, ref, text, url, key) ==
    [kind |-> kind, tool |-> tool, element |-> element, ref |-> ref,
     text |-> text, url |-> url, key |-> key]

\* words of the model that contain the substring 'error'
HasErrorWord(s) == s \in {"error", "Show errors", "https://app.test/errors"}

\* actionStr.includes('error')
IncludesError(str) ==
    \/ str.kind = "error"
    \/ \E f \in {"element", "ref", "text", "url", "key"} : HasErrorWord(str[f])

\* executeMCPAction(action, browserNum): the string returned and the memory
\* afterwards; callFails says whether mcpClient.callTool rejects
ExecuteMCPAction(action, mem, callFails) ==
    IF action.type = "memory_store"
    THEN [str |-> ActionStr("stored", "memory", Undef, Undef, Undef, Undef, action.key),
          mem |-> StoreInMemory(mem, action.key, action.value)]
    ELSE IF action.type = "memory_read"
    THEN [str |-> ActionStr("read", "memory", Undef, Undef,
                            ReadFromMemory(mem, action.key), Undef, action.key),
          mem |-> mem]
    ELSE IF action.type \notin {"click", "fill", "navigate"}
    THEN [str |-> ActionStr("unknown", action.type, Undef, Undef, Undef, Undef, Undef),
          mem |-> mem]
    ELSE LET tool == CASE action.type = "click" -> "browser_click"
                       [] action.type = "fill" -> "browser_type"
                       [] OTHER -> "browser_navigate"
             elem == IF action.type = "navigate" THEN Undef
                     ELSE IF action.element /= Undef THEN action.element
                     ELSE action.ref
             ref == IF action.type = "navigate" THEN Undef ELSE action.ref
             fillValue ==
                 IF action.type /= "fill" THEN Undef
                 ELSE IF action.memoryKey /= Undef
                      THEN (IF ReadFromMemory(mem, action.memoryKey) = Undef
                            THEN ""
                            ELSE ReadFromMemory(mem, action.memoryKey))
                      ELSE action.value
             url == IF action.type = "navigate" THEN action.url ELSE Undef
         IN  [str |-> ActionStr(IF callFails THEN "error" ELSE "ok",
                                tool, elem, ref, fillValue, url, Undef),
              mem |-> mem]

-----------------------------------------------------------------------------
(* Instruction Parser (on lines in parsed form) *)

DefaultDelay == 200

\* parseBrowserPrefix(instruction)
ParseBrowserPrefix(line) ==
    [browserNum |-> IF line.prefix \in {1, 2} THEN line.prefix ELSE 1,
     cleanInstruction |-> [line EXCEPT !.prefix = 0]]

\* parseDelayFromInstruction(instruction)
ParseDelayFromInstruction(line) ==
    IF line.delayTok /= NoDelayTok THEN line.delayTok ELSE DefaultDelay

NoCommand == [type |-> "none", url |-> Undef, direction |-> Undef]

\* a slip parseSpecialCommand could make: no instruction is a special command
NoSpecialCommand(text) == NoCommand

\* parseSpecialCommand(instruction), on the instruction texts the model uses
ParseSpecialCommand(text) ==
    CASE text = "go to https://example.test" ->
            [type |-> "navigate", url |-> "https://example.test", direction |-> Undef]
      [] text = "reset session" ->
            [type |-> "reset", url |-> Undef, direction |-> Undef]
      [] text = "scroll down" ->
            [type |-> "scroll", url |-> Undef, direction |-> "down"]
      [] text = "Scroll UP" ->
            [type |-> "scroll", url |-> Undef, direction |-> "up"]
      [] OTHER -> NoCommand

\* the step object runSingleStep / runSingleStepLearning build from a line
StepOf(line, browserNum) ==
    [instruction |-> line.text, expectedResult |-> line.expected,
     delay |-> ParseDelayFromInstruction(line), browserNum |-> browserNum]

-----------------------------------------------------------------------------
(* Verification Pattern Engine *)

ActualResult(msg, key, value, pattern, tried) ==
    [msg |-> msg, key |-> key, value |-> value, pattern |-> pattern, tried |-> tried]

Passed == ActualResult("passed", Undef, Undef, Undef, <<>>)
CommandExecuted == ActualResult("Command executed successfully", Undef, Undef, Undef, <<>>)

MemoryCheck(key, pattern, shouldExist) ==
    [key |-> key, pattern |-> pattern, shouldExist |-> shouldExist]

VerificationSpec(match, notMatch, memoryChecks) ==
    [match |-> match, notMatch |-> notMatch, memoryChecks |-> memoryChecks]

NoVerification == [noVerification |-> TRUE]

\* regex.test(String(memValue))
ValueMatches(pattern, value) == Lower(value) = Lower(pattern)

\* one iteration of the memoryChecks loop: Passed, or the failure it returns
MemoryCheckResult(check, mem) ==
    LET memValue == ReadFromMemory(mem, check.key)
        shouldExist == check.shouldExist /= "false"
    IN  IF shouldExist /\ memValue = Undef
        THEN ActualResult("Memory key not found", check.key, Undef, Undef, <<>>)
        ELSE IF ~shouldExist /\ memValue /= Undef
        THEN ActualResult("Memory key should not exist", check.key, memValue, Undef, <<>>)
        ELSE IF /\ shouldExist
                /\ check.pattern \notin {Undef, ""}
                /\ ValidRegex(check.pattern)
                /\ ~ValueMatches(check.pattern, memValue)
        THEN ActualResult("Memory value doesn't match pattern",
                          check.key, memValue, check.pattern, <<>>)
        ELSE Passed

\* a slip verifyWithPatterns could make: every match pattern must match
VerifyAllMustMatch(verification, page, mem) ==
    LET ci == FindIndex(verification.memoryChecks,
                        LAMBDA c : MemoryCheckResult(c, mem) /= Passed)
        ni == FindIndex(verification.notMatch, LAMBDA p : PageMatches(p, page))
        xi == FindIndex(verification.match, LAMBDA p : ~PageMatches(p, page))
    IN  IF ci > 0
        THEN [success |-> FALSE,
              actualResult |-> MemoryCheckResult(verification.memoryChecks[ci], mem)]
        ELSE IF ni > 0
        THEN [success |-> FALSE,
              actualResult |-> ActualResult("Found forbidden pattern", Undef, Undef,
                                            verification.notMatch[ni], <<>>)]
        ELSE IF Len(verification.match) = 0
        THEN [success |-> TRUE,
              actualResult |-> ActualResult("No forbidden patterns found",
                                            Undef, Undef, Undef, <<>>)]
        ELSE IF xi = 0
        THEN [success |-> TRUE,
              actualResult |-> ActualResult("Matched pattern", Undef, Undef,
                                            verification.match[1], <<>>)]
        ELSE [success |-> FALSE,
              actualResult |-> ActualResult("No patterns matched", Undef, Undef, Undef,
                                            verification.match)]

\* a slip verifyWithPatterns could make: an empty match list is tried like
\* any other and nothing of it matches
VerifyEmptyMatchFails(verification, page, mem) ==
    LET ci == FindIndex(verification.memoryChecks,
                        LAMBDA c : MemoryCheckResult(c, mem) /= Passed)
        ni == FindIndex(verification.notMatch, LAMBDA p : PageMatches(p, page))
        mi == FindIndex(verification.match, LAMBDA p : PageMatches(p, page))
    IN  IF ci > 0
        THEN [success |-> FALSE,
              actualResult |-> MemoryCheckResult(verification.memoryChecks[ci], mem)]
        ELSE IF ni > 0
        THEN [success |-> FALSE,
              actualResult |-> ActualResult("Found forbidden pattern", Undef, Undef,
                                            verification.notMatch[ni], <<>>)]
        ELSE IF mi > 0
        THEN [success |-> TRUE,
              actualResult |-> ActualResult("Matched pattern", Undef, Undef,
                                            verification.match[mi], <<>>)]
        ELSE [success |-> FALSE,
              actualResult |-> ActualResult("No patterns matched", Undef, Undef, Undef,
                                            verification.match)]

\* a slip verifyWithPatterns could make: the notMatch patterns are tried
\* before the memory checks
VerifyNotMatchFirst(verification, page, mem) ==
    LET ci == FindIndex(verification.memoryChecks,
                        LAMBDA c : MemoryCheckResult(c, mem) /= Passed)
        ni == FindIndex(verification.notMatch, LAMBDA p : PageMatches(p, page))
        mi == FindIndex(verification.match, LAMBDA p : PageMatches(p, page))
    IN  IF ni > 0
        THEN [success |-> FALSE,
              actualResult |-> ActualResult("Found forbidden pattern", Undef, Undef,
                                            verification.notMatch[ni], <<>>)]
        ELSE IF ci > 0
        THEN [success |-> FALSE,
              actualResult |-> MemoryCheckResult(verification.memoryChecks[ci], mem)]
        ELSE IF Len(verification.match) = 0
        THEN [success |-> TRUE,
              actualResult |-> ActualResult("No forbidden patterns found",
                                            Undef, Undef, Undef, <<>>)]
        ELSE IF mi > 0
        THEN [success |-> TRUE,
              actualResult |-> ActualResult("Matched pattern", Undef, Undef,
                                            verification.match[mi], <<>>)]
        ELSE [success |-> FALSE,
              actualResult |-> ActualResult("No patterns matched", Undef, Undef, Undef,
                                            verification.match)]

\* a slip verifyWithPatterns could make: the match patterns are tried
\* before the notMatch patterns
VerifyMatchFirst(verification, page, mem) ==
    LET ci == FindIndex(verification.memoryChecks,
                        LAMBDA c : MemoryCheckResult(c, mem) /= Passed)
        ni == FindIndex(verification.notMatch, LAMBDA p : PageMatches(p, page))
        mi == FindIndex(verification.match, LAMBDA p : PageMatches(p, page))
    IN  IF ci > 0
        THEN [success |-> FALSE,
              actualResult |-> MemoryCheckResult(verification.memoryChecks[ci], mem)]
        ELSE IF mi > 0
        THEN [success |-> TRUE,
              actualResult |-> ActualResult("Matched pattern", Undef, Undef,
                                            verification.match[mi], <<>>)]
        ELSE IF ni > 0
        THEN [success |-> FALSE,
              actualResult |-> ActualResult("Found forbidden pattern", Undef, Undef,
                                            verification.notMatch[ni], <<>>)]
        ELSE IF Len(verification.match) = 0
        THEN [success |-> TRUE,
              actualResult |-> ActualResult("No forbidden patterns found",
                                            Undef, Undef, Undef, <<>>)]
        ELSE [success |-> FALSE,
              actualResult |-> ActualResult("No patterns matched", Undef, Undef, Undef,
                                            verification.match)]

\* verifyWithPatterns(verification, pageContent)
VerifyWithPatterns(verification, page, mem) ==
    LET ci == FindIndex(verification.memoryChecks,
                        LAMBDA c : MemoryCheckResult(c, mem) /= Passed)
        ni == FindIndex(verification.notMatch, LAMBDA p : PageMatches(p, page))
        mi == FindIndex(verification.match, LAMBDA p : PageMatches(p, page))
    IN  IF ci > 0
        THEN [success |-> FALSE,
              actualResult |-> MemoryCheckResult(verification.memoryChecks[ci], mem)]
        ELSE IF ni > 0
        THEN [success |-> FALSE,
              actualResult |-> ActualResult("Found forbidden pattern", Undef, Undef,
                                            verification.notMatch[ni], <<>>)]
        ELSE IF Len(verification.match) = 0
        THEN [success |-> TRUE,
              actualResult |-> ActualResult("No forbidden patterns found",
                                            Undef, Undef, Undef, <<>>)]
        ELSE IF mi > 0
        THEN [success |-> TRUE,
              actualResult |-> ActualResult("Matched pattern", Undef, Undef,
                                            verification.match[mi], <<>>)]
        ELSE [success |-> FALSE,
              actualResult |-> ActualResult("No patterns matched", Undef, Undef, Undef,
                                            verification.match)]

\* responses of the oracle to the "propose verification patterns" prompt
PatternsJson(hasMatch, match, notMatch, memoryChecks) ==
    [kind |-> "json", hasMatch |-> hasMatch, match |-> match, notMatch |-> notMatch,
     memoryChecks |-> memoryChecks]
PatternsNoJson == [kind |-> "nojson"]
PatternsThrows == [kind |-> "throws"]
\* a {...} span is found and JSON.parse rejects it
PatternsBadJson == [kind |-> "badjson"]

\* getVerificationPatterns(expectedResult), given the oracle's response
GetVerificationPatterns(expectedResult, resp) ==
    IF resp.kind = "json"
    THEN VerificationSpec(IF resp.hasMatch THEN resp.match ELSE <<expectedResult>>,
                          resp.notMatch, resp.memoryChecks)
    ELSE VerificationSpec(<<EscapeRegExp(expectedResult)>>, <<>>, <<>>)

\* verifyExpectedResult(expectedResult, pageContent), given the oracle's response
VerifyExpectedResult(expectedResult, page, mem, resp) ==
    VerifyWithPatterns(GetVerificationPatterns(expectedResult, resp), page, mem)

-----------------------------------------------------------------------------
(* Element Resolution Engine *)

PlanAction(raw, textContent, role, extractionHint, extractionRegex) ==
    [type |-> raw.type, element |-> raw.element, ref |-> raw.ref, value |-> raw.value,
     memoryKey |-> raw.memoryKey, url |-> raw.url, key |-> raw.key,
     textContent |-> textContent, role |-> role,
     extractionHint |-> extractionHint, extractionRegex |-> extractionRegex]

IsRole(tok, role) == tok.k = "role" /\ Lower(tok.v) = Lower(role)
IsText(tok, text) == tok.k = "text" /\ Lower(tok.v) = Lower(text)
IsRef(tok) == tok.k = "ref"

MaxOf(S) == CHOOSE x \in S : \A y \in S : y <= x
MinOf(S) == CHOOSE x \in S : \A y \in S : x <= y

\* positions of the [ref=..] captured on one line by each pattern (greedy
\* [^\n]*, leftmost match); the empty set when the pattern does not match
RoleTextRef(ln, role, text) ==
    {k \in 1..Len(ln) : /\ IsRef(ln[k])
                        /\ \E i \in 1..Len(ln) : \E j \in 1..Len(ln) :
                              i < j /\ j < k /\ IsRole(ln[i], role) /\ IsText(ln[j], text)}
RoleRefText(ln, role, text) ==
    {k \in 1..Len(ln) : /\ IsRef(ln[k])
                        /\ \E i \in 1..Len(ln) : \E j \in 1..Len(ln) :
                              i < k /\ k < j /\ IsRole(ln[i], role) /\ IsText(ln[j], text)}
TextRef(ln, text) ==
    {k \in 1..Len(ln) : IsRef(ln[k]) /\ \E j \in 1..(k - 1) : IsText(ln[j], text)}
RefText(ln, text) ==
    {k \in 1..Len(ln) : IsRef(ln[k]) /\ \E j \in (k + 1)..Len(ln) : IsText(ln[j], text)}

\* pageContent.match(pattern): the capture of the first line that matches,
\* Null when none does; `last` tells which end of the candidates is captured
Capture(page, Cands(_), last) ==
    LET l == FindIndex(page, LAMBDA ln : Cands(ln) /= {})
    IN  IF l = 0 THEN Null
        ELSE page[l][IF last THEN MaxOf(Cands(page[l])) ELSE MinOf(Cands(page[l]))].v

\* a slip resolveElementRef could make: the patterns without role constraint
\* are tried before the patterns with the role
ResolveTextFirst(action, page) ==
    IF action.textContent \in {Undef, ""}
    THEN (IF action.ref \in {Undef, ""} THEN Null ELSE action.ref)
    ELSE LET text == action.textContent
             hasRole == action.role \notin {Undef, ""}
             m1 == IF hasRole
                   THEN Capture(page, LAMBDA ln : RoleTextRef(ln, action.role, text), TRUE)
                   ELSE Null
             m2 == IF hasRole
                   THEN Capture(page, LAMBDA ln : RoleRefText(ln, action.role, text), TRUE)
                   ELSE Null
             m3 == Capture(page, LAMBDA ln : TextRef(ln, text), TRUE)
             m4 == Capture(page, LAMBDA ln : RefText(ln, text), FALSE)
             tryElem == action.element \notin {Undef, ""} /\ action.element /= text
             m5 == IF tryElem
                   THEN Capture(page, LAMBDA ln : TextRef(ln, action.element), TRUE)
                   ELSE Null
             m6 == IF tryElem
                   THEN Capture(page, LAMBDA ln : RefText(ln, action.element), FALSE)
                   ELSE Null
         IN  IF m3 /= Null THEN m3
             ELSE IF m4 /= Null THEN m4
             ELSE IF m1 /= Null THEN m1
             ELSE IF m2 /= Null THEN m2
             ELSE IF m5 /= Null THEN m5
             ELSE m6

\* resolveElementRef(action, pageContent)
ResolveElementRef(action, page) ==
    IF action.textContent \in {Undef, ""}
    THEN (IF action.ref \in {Undef, ""} THEN Null ELSE action.ref)
    ELSE LET text == action.textContent
             hasRole == action.role \notin {Undef, ""}
             m1 == IF hasRole
                   THEN Capture(page, LAMBDA ln : RoleTextRef(ln, action.role, text), TRUE)
                   ELSE Null
             m2 == IF hasRole
                   THEN Capture(page, LAMBDA ln : RoleRefText(ln, action.role, text), TRUE)
                   ELSE Null
             m3 == Capture(page, LAMBDA ln : TextRef(ln, text), TRUE)
             m4 == Capture(page, LAMBDA ln : RefText(ln, text), FALSE)
             tryElem == action.element \notin {Undef, ""} /\ action.element /= text
             m5 == IF tryElem
                   THEN Capture(page, LAMBDA ln : TextRef(ln, action.element), TRUE)
                   ELSE Null
             m6 == IF tryElem
                   THEN Capture(page, LAMBDA ln : RefText(ln, action.element), FALSE)
                   ELSE Null
         IN  IF m1 /= Null THEN m1
             ELSE IF m2 /= Null THEN m2
             ELSE IF m3 /= Null THEN m3
             ELSE IF m4 /= Null THEN m4
             ELSE IF m5 /= Null THEN m5
             ELSE m6

-----------------------------------------------------------------------------
(* Learning: enrichment of the oracle's actions into plan actions *)

RoleWords == {"button", "link", "textbox", "checkbox", "radio", "combobox",
              "heading", "img", "tab", "menu"}

\* the role captured by rolePattern for `ref`: the first role word of the
\* first line on which a role word precedes [ref=<ref>]; Undef when none
RoleNear(page, ref) ==
    LET Hits(ln) == {i \in 1..Len(ln) :
                        /\ ln[i].k = "role" /\ Lower(ln[i].v) \in RoleWords
                        /\ \E k \in (i + 1)..Len(ln) : IsRef(ln[k]) /\ ln[k].v = ref}
        l == FindIndex(page, LAMBDA ln : Hits(ln) /= {})
    IN  IF l = 0 THEN Undef ELSE Lower(page[l][MinOf(Hits(page[l]))].v)

DefaultHint(key) == <<"Extract the value labeled", key>>

\* a slip enrichActionsForPlan could make: the literal of a memory_store is
\* recorded as it was seen, without an extraction hint
EnrichKeepsLiteral(action, page) ==
    LET anchored == action.ref \notin {Undef, ""} /\ action.type \in {"click", "fill"}
    IN  PlanAction(action,
                   IF anchored
                   THEN (IF action.element \notin {Undef, ""} THEN action.element
                         ELSE action.ref)
                   ELSE Undef,
                   IF anchored THEN RoleNear(page, action.ref) ELSE Undef,
                   <<>>, Undef)

\* the callback of rawActions.map in enrichActionsForPlan
EnrichAction(action, page) ==
    LET anchored == action.ref \notin {Undef, ""} /\ action.type \in {"click", "fill"}
        dynamic == action.type = "memory_store" /\ action.value \notin {Undef, ""}
        base == PlanAction(action,
                    IF anchored
                    THEN (IF action.element \notin {Undef, ""} THEN action.element
                          ELSE action.ref)
                    ELSE Undef,
                    IF anchored THEN RoleNear(page, action.ref) ELSE Undef,
                    IF dynamic
                    THEN (IF action.element \notin {Undef, ""} THEN <<action.element>>
                          ELSE DefaultHint(action.key))
                    ELSE <<>>,
                    Undef)
    IN  IF dynamic THEN [base EXCEPT !.value = Undef] ELSE base

\* enrichActionsForPlan(rawActions, pageContent)
EnrichActionsForPlan(rawActions, page) ==
    [i \in 1..Len(rawActions) |-> EnrichAction(rawActions[i], page)]

-----------------------------------------------------------------------------
(* Step execution *)

TestResult(stepIndex, instruction, expectedResult, actualResult, success, executedActions) ==
    [stepIndex |-> stepIndex, instruction |-> instruction,
     expectedResult |-> expectedResult, actualResult |-> actualResult,
     success |-> success, executedActions |-> executedActions]

\* executeSpecialCommand(cmd, browserNum); callFails: mcpClient.callTool rejects
ExecuteSpecialCommand(cmd, callFails) ==
    IF \/ cmd.type = "navigate" /\ cmd.url \notin {Undef, ""}
       \/ cmd.type \in {"reset", "scroll"}
    THEN [threw |-> callFails,
          str |-> ActionStr("special", cmd.type, Undef, Undef,
                            IF cmd.type = "scroll"
                            THEN (IF cmd.direction \in {Undef, ""} THEN "down"
                                  ELSE cmd.direction)
                            ELSE Undef,
                            IF cmd.type = "navigate" THEN cmd.url ELSE Undef, Undef)]
    ELSE [threw |-> FALSE,
          str |-> ActionStr("special", "Unknown command", Undef, Undef, Undef, Undef, Undef)]

\* responses of the oracle to the "propose an action list" prompt
ActionsJson(actions) == [kind |-> "json", actions |-> actions]
ActionsNoJson == [kind |-> "nojson", actions |-> <<>>]
ActionsThrow == [kind |-> "throws", actions |-> <<>>]

\* the loop `for (const action of rawActions)` of executeStepActions from
\* index i on; fails: the indices at which callTool rejects
RECURSIVE ExecuteAll(_, _, _, _)
ExecuteAll(actions, i, mem, fails) ==
    IF i > Len(actions) THEN [strs |-> <<>>, mem |-> mem]
    ELSE LET r == ExecuteMCPAction(actions[i], mem, i \in fails)
             rest == ExecuteAll(actions, i + 1, r.mem, fails)
         IN  [strs |-> <<r.str>> \o rest.strs, mem |-> rest.mem]

\* executeStepActions(step, pageContent, executionHistory, browserNum)
ExecuteStepActions(step, mem, resp, fails) ==
    LET cmd == ParseSpecialCommand(step.instruction)
    IN  IF cmd.type /= "none"
        THEN LET r == ExecuteSpecialCommand(cmd, fails /= {})
             IN  [threw |-> r.threw, executedActions |-> <<r.str>>, hasRaw |-> FALSE,
                  rawActions |-> <<>>, mem |-> mem, calls |-> {}]
        ELSE IF resp.kind /= "json"
        THEN [threw |-> FALSE, executedActions |-> <<>>, hasRaw |-> FALSE,
              rawActions |-> <<>>, mem |-> mem, calls |-> {"actions"}]
        ELSE LET r == ExecuteAll(resp.actions, 1, mem, fails)
             IN  [threw |-> FALSE, executedActions |-> r.strs, hasRaw |-> TRUE,
                  rawActions |-> resp.actions, mem |-> r.mem, calls |-> {"actions"}]

-----------------------------------------------------------------------------
(* Learning mode *)

PlanStep(originalInstruction, type, actions, specialCommand, verification, delay, browserNum, learnedAt, failCount) ==
    [originalInstruction |-> originalInstruction, type |-> type, actions |-> actions,
     specialCommand |-> specialCommand, verification |-> verification,
     delay |-> delay, browserNum |-> browserNum, learnedAt |-> learnedAt,
     failCount |-> failCount]

\* what the browser and the oracle answer during one learning run
LearnEnv(snap, resp, fails, snap2, presp) ==
    [snap |-> snap, resp |-> resp, fails |-> fails, snap2 |-> snap2, presp |-> presp]

NoResult == [noResult |-> TRUE]

Thrown(mem, calls) ==
    [threw |-> TRUE, result |-> NoResult, planStep |-> NoStep, mem |-> mem,
     calls |-> calls]

\* a slip runSingleStepLearning could make: a step without expected result
\* starts out as failed
AutoPassFails == [success |-> FALSE, actualResult |-> CommandExecuted]

\* let verifyResult = { success: true, actualResult: 'Command executed successfully' }
AutoPassResult == [success |-> TRUE, actualResult |-> CommandExecuted]

\* runSingleStepLearning(instruction, browserNum): `line` is the trimmed
\* instruction; the result, the captured plan step and the memory afterwards
RunSingleStepLearning(line, browserNum, mem, env) ==
    LET step == StepOf(line, browserNum)
        cmd == ParseSpecialCommand(step.instruction)
    IN  IF cmd.type /= "none"
        THEN LET r == ExecuteSpecialCommand(cmd, env.fails /= {})
             IN  IF r.threw THEN Thrown(mem, {})
                 ELSE [threw |-> FALSE,
                       result |-> TestResult(0, step.instruction, "(auto-pass)",
                                             CommandExecuted, TRUE, <<r.str>>),
                       planStep |-> PlanStep(line, "special", <<>>, cmd, NoVerification,
                                             step.delay, browserNum, "now", 0),
                       mem |-> mem, calls |-> {}]
        ELSE IF ~env.snap.ok THEN Thrown(mem, {})
        ELSE LET ex == ExecuteStepActions(step, mem, env.resp, env.fails)
                 planActions == EnrichActionsForPlan(ex.rawActions, env.snap.text)
                 verified == step.expectedResult /= AUTO_PASS
                 verification == IF verified
                                 THEN GetVerificationPatterns(step.expectedResult, env.presp)
                                 ELSE NoVerification
                 verifyResult == IF verified
                                 THEN VerifyWithPatterns(verification, env.snap2.text, ex.mem)
                                 ELSE AutoPassResult
                 calls == ex.calls \cup (IF verified THEN {"patterns"} ELSE {})
             IN  IF verified /\ ~env.snap2.ok THEN Thrown(ex.mem, ex.calls)
                 ELSE [threw |-> FALSE,
                       result |-> TestResult(0, step.instruction,
                                      IF verified THEN step.expectedResult
                                      ELSE "(auto-pass)",
                                      verifyResult.actualResult, verifyResult.success,
                                      ex.executedActions),
                       planStep |-> PlanStep(line, "action", planActions, NoCommand,
                                             verification, step.delay, browserNum,
                                             "now", 0),
                       mem |-> ex.mem, calls |-> calls]

-----------------------------------------------------------------------------
(* Plan replay *)

\* responses of the oracle to the value-extraction prompt (plain text)
ExtractText(content) == [kind |-> "text", content |-> content]
ExtractThrows == [kind |-> "throws", content |-> ""]

\* pageContent.match(regex)[0]: the first text of the page the regex matches
FirstMatch(regex, page) ==
    LET Hit(ln) == {t \in 1..Len(ln) :
                       ln[t].k \in {"text", "role"} /\ Lower(ln[t].v) = Lower(regex)}
        l == FindIndex(page, LAMBDA ln : Hit(ln) /= {})
    IN  IF l = 0 THEN Null ELSE page[l][MinOf(Hit(page[l]))].v

\* a slip extractDynamicValue could make: the oracle is asked first and the
\* recorded regex is tried only when it gave nothing
ExtractByOracleFirst(extractionRegex, extractionHint, page, eresp) ==
    LET byRegex == IF extractionRegex \notin {Undef, ""} /\ ValidRegex(extractionRegex)
                   THEN FirstMatch(extractionRegex, page)
                   ELSE Null
    IN  IF extractionHint /= <<>> /\ eresp.kind = "text" /\ eresp.content /= ""
        THEN [value |-> eresp.content, calls |-> {"extract"}]
        ELSE [value |-> byRegex,
              calls |-> IF extractionHint /= <<>> THEN {"extract"} ELSE {}]

\* extractDynamicValue(extractionRegex, extractionHint, pageContent, browserNum)
ExtractDynamicValue(extractionRegex, extractionHint, page, eresp) ==
    LET byRegex == IF extractionRegex \notin {Undef, ""} /\ ValidRegex(extractionRegex)
                   THEN FirstMatch(extractionRegex, page)
                   ELSE Null
    IN  IF byRegex /= Null THEN [value |-> byRegex, calls |-> {}]
        ELSE IF extractionHint /= <<>>
        THEN [value |-> IF eresp.kind = "text" /\ eresp.content /= ""
                        THEN eresp.content ELSE Null,
              calls |-> {"extract"}]
        ELSE [value |-> Null, calls |-> {}]

\* what the browser and the oracle answer during one replay
ReplayEnv(snap, fails, eresp, snap2) ==
    [snap |-> snap, fails |-> fails, eresp |-> eresp, snap2 |-> snap2]

\* replayPlanStep, memory_store with a dynamic value: x is what
\* extractDynamicValue returned
ReplayStoreExtracted(action, mem, x) ==
    IF x.value \notin {Null, ""} /\ action.key \notin {Undef, ""}
    THEN [status |-> "ok", actualResult |-> Passed,
          executed |-> <<ActionStr("stored", "memory_store", Undef, Undef,
                                   x.value, Undef, action.key)>>,
          mem |-> StoreInMemory(mem, action.key, x.value), calls |-> x.calls]
    ELSE [status |-> "failed",
          actualResult |-> ActualResult("Failed to extract dynamic value",
                                        action.key, Undef, Undef, <<>>),
          executed |-> <<>>, mem |-> mem, calls |-> x.calls]

\* replayPlanStep, an MCP action after its ref was resolved: r is what
\* executeMCPAction returned
ReplayExecuted(r) ==
    IF IncludesError(r.str)
    THEN [status |-> "failed", actualResult |-> r.str,
          executed |-> <<r.str>>, mem |-> r.mem, calls |-> {}]
    ELSE [status |-> "ok", actualResult |-> Passed,
          executed |-> <<r.str>>, mem |-> r.mem, calls |-> {}]

\* replayPlanStep, an MCP action: resolvedRef is what resolveElementRef
\* returned for a click or fill that recorded its text (Null otherwise)
ReplayResolved(action, i, mem, env, needsRef, resolvedRef) ==
    IF needsRef /\ resolvedRef = Null
    THEN [status |-> "failed",
          actualResult |-> ActualResult("Could not find element", Undef,
                                        action.textContent, Undef, <<>>),
          executed |-> <<>>, mem |-> mem, calls |-> {}]
    ELSE ReplayExecuted(ExecuteMCPAction(IF needsRef
                                         THEN [action EXCEPT !.ref = resolvedRef]
                                         ELSE action,
                                         mem, i \in env.fails))

\* the body of the loop `for (const action of planStep.actions)` of
\* replayPlanStep for the action at index i: "ok" with the string pushed to
\* executedActions, or the failure the loop returns with
ReplayAction(action, i, mem, env) ==
    IF /\ action.type = "memory_store"
       /\ (action.extractionHint /= <<>> \/ action.extractionRegex \notin {Undef, ""})
    THEN ReplayStoreExtracted(action, mem,
             ExtractDynamicValue(action.extractionRegex, action.extractionHint,
                                 env.snap.text, env.eresp))
    ELSE IF /\ action.type = "memory_store"
            /\ action.key \notin {Undef, ""} /\ action.value \notin {Undef, ""}
    THEN [status |-> "ok", actualResult |-> Passed,
          executed |-> <<ActionStr("stored", "memory_store", Undef, Undef,
                                   action.value, Undef, action.key)>>,
          mem |-> StoreInMemory(mem, action.key, action.value), calls |-> {}]
    ELSE IF action.type = "memory_read" /\ action.key \notin {Undef, ""}
    THEN [status |-> "ok", actualResult |-> Passed,
          executed |-> <<ActionStr("read", "memory_read", Undef, Undef, Undef,
                                   Undef, action.key)>>,
          mem |-> mem, calls |-> {}]
    ELSE IF action.type \in {"click", "fill"} /\ action.textContent \notin {Undef, ""}
    THEN ReplayResolved(action, i, mem, env, TRUE,
                        ResolveElementRef(action, env.snap.text))
    ELSE ReplayResolved(action, i, mem, env, FALSE, Null)

\* the loop from index i on, after the action at i gave `one`
RECURSIVE ReplayActions(_, _, _, _, _, _)
ReplayRest(actions, i, executed, calls, env, one) ==
    IF one.status = "failed"
    THEN [one EXCEPT !.executed = executed \o one.executed,
                     !.calls = calls \cup one.calls]
    ELSE ReplayActions(actions, i + 1, one.mem, executed \o one.executed,
                       calls \cup one.calls, env)

\* the loop `for (const action of planStep.actions)` of replayPlanStep from
\* index i on: "ok" when it ran to its end, else the failure it returned
ReplayActions(actions, i, mem, executed, calls, env) ==
    IF i > Len(actions)
    THEN [status |-> "ok", actualResult |-> Passed, executed |-> executed,
          mem |-> mem, calls |-> calls]
    ELSE ReplayRest(actions, i, executed, calls, env,
                    ReplayAction(actions[i], i, mem, env))

ReplayThrown(mem, calls) ==
    [threw |-> TRUE, success |-> FALSE, result |-> NoResult, mem |-> mem, calls |-> calls]

\* a slip replayPlanStep could make: the expected result is verified through
\* the oracle, as in learning
ReplayVerifiedByOracle(planStep, run, v) ==
    [threw |-> FALSE, success |-> v.success,
     result |-> TestResult(0, planStep.originalInstruction,
                   planStep.originalInstruction.expected,
                   v.actualResult, v.success, run.executed),
     mem |-> run.mem, calls |-> run.calls \cup {"patterns"}]

\* replayPlanStep after its action loop ran to its end with `run`: v is what
\* verifyWithPatterns returned
ReplayVerified(planStep, run, v) ==
    [threw |-> FALSE, success |-> v.success,
     result |-> TestResult(0, planStep.originalInstruction,
                   IF planStep.originalInstruction.expected \in {AUTO_PASS, ""}
                   THEN "(auto-pass)"
                   ELSE planStep.originalInstruction.expected,
                   v.actualResult, v.success, run.executed),
     mem |-> run.mem, calls |-> run.calls]

\* replayPlanStep from the end of its action loop on
ReplayFinish(planStep, env, run) ==
    IF run.status = "failed"
    THEN [threw |-> FALSE, success |-> FALSE,
          result |-> TestResult(0, planStep.originalInstruction, "",
                                run.actualResult, FALSE, run.executed),
          mem |-> run.mem, calls |-> run.calls]
    ELSE IF planStep.verification /= NoVerification
    THEN IF ~env.snap2.ok THEN ReplayThrown(run.mem, run.calls)
         ELSE ReplayVerified(planStep, run,
                  VerifyWithPatterns(planStep.verification, env.snap2.text, run.mem))
    ELSE [threw |-> FALSE, success |-> TRUE,
          result |-> TestResult(0, planStep.originalInstruction, "(auto-pass)",
                                CommandExecuted, TRUE, run.executed),
          mem |-> run.mem, calls |-> run.calls]

\* replayPlanStep of a special-command step: r is what executeSpecialCommand gave
ReplaySpecial(planStep, mem, r) ==
    IF r.threw THEN ReplayThrown(mem, {})
    ELSE [threw |-> FALSE, success |-> TRUE,
          result |-> TestResult(0, planStep.originalInstruction, "(auto-pass)",
                                CommandExecuted, TRUE, <<r.str>>),
          mem |-> mem, calls |-> {}]

\* replayPlanStep(planStep, browserNum)
ReplayPlanStep(planStep, browserNum, mem, env) ==
    IF planStep.type = "special" /\ planStep.specialCommand /= NoCommand
    THEN ReplaySpecial(planStep, mem,
                       ExecuteSpecialCommand(planStep.specialCommand, env.fails /= {}))
    ELSE IF ~env.snap.ok THEN ReplayThrown(mem, {})
    ELSE ReplayFinish(planStep, env,
                      ReplayActions(planStep.actions, 1, mem, <<>>, {}, env))

-----------------------------------------------------------------------------
(* The step workflow (plain mode) and the retry loop *)

HistorySlice == 10
DefaultMaxRetries == 2

\* a slip verifyStep could make: slice(0, n), the oldest entries
FirstN(s, n) == SubSeq(s, 1, Min(n, Len(s)))

\* s.slice(-n)
LastN(s, n) == SubSeq(s, Max(1, Len(s) - n + 1), Len(s))

\* a slip runStepWithRetry could make: the earlier result of the step stays
RetryKeepsOldResult(results, stepIndex) == results

\* results.filter(r => r.stepIndex !== stepIndex)
WithoutStep(results, stepIndex) ==
    SelectSeq(results, LAMBDA r : r.stepIndex /= stepIndex)
\* results.filter(r => r.stepIndex === stepIndex)
OfStep(results, stepIndex) ==
    SelectSeq(results, LAMBDA r : r.stepIndex = stepIndex)

TestState(testSteps, currentStepIndex, results, executionHistory, shouldContinue, browserNum) ==
    [testSteps |-> testSteps, currentStepIndex |-> currentStepIndex,
     results |-> results, executionHistory |-> executionHistory,
     shouldContinue |-> shouldContinue, browserNum |-> browserNum]

\* one stepApp.invoke(state): the nodes readPage, executeStep, verifyStep.
\* threw: an exception left the graph; st is then the state handed in
InvokeStep(st, mem, env) ==
    LET step == st.testSteps[st.currentStepIndex + 1]
        ex == ExecuteStepActions(step, mem, env.resp, env.fails)
        history == st.executionHistory \o ex.executedActions
        verified == step.expectedResult /= AUTO_PASS
        v == IF verified
             THEN VerifyExpectedResult(step.expectedResult, env.snap2.text, ex.mem,
                                       env.presp)
             ELSE [success |-> TRUE, actualResult |-> CommandExecuted]
        res == TestResult(st.currentStepIndex, step.instruction,
                          IF verified THEN step.expectedResult ELSE "(auto-pass)",
                          v.actualResult, v.success, LastN(history, HistorySlice))
    IN  IF ~env.snap.ok
        THEN [threw |-> TRUE, st |-> st, mem |-> mem, calls |-> {}]
        ELSE IF ex.threw
        THEN [threw |-> TRUE, st |-> st, mem |-> ex.mem, calls |-> ex.calls]
        ELSE IF verified /\ ~env.snap2.ok
        THEN [threw |-> TRUE, st |-> st, mem |-> ex.mem, calls |-> ex.calls]
        ELSE [threw |-> FALSE,
              st |-> [st EXCEPT !.results = Append(st.results, res),
                                !.executionHistory = history,
                                !.shouldContinue = v.success],
              mem |-> ex.mem,
              calls |-> ex.calls \cup (IF verified THEN {"patterns"} ELSE {})]

\* runStepWithRetry: `stepSucceeded` for lastState
StepSucceeded(st, stepIndex) ==
    LET stepResults == OfStep(st.results, stepIndex)
    IN  Len(stepResults) > 0 /\ stepResults[Len(stepResults)].success

\* a slip runStepWithRetry could make: one attempt too few
MayAttemptOffByOne(n, retries) == n < retries

\* runStepWithRetry: the loop condition `attempt <= this.maxRetries`
MayAttempt(n, retries) == n <= retries

-----------------------------------------------------------------------------
(* What the browser and the oracle may answer *)

ActionResponses ==
    {ActionsThrow, ActionsNoJson, ActionsJson(<<ClickLogin>>),
     ActionsJson(<<StoreCode, FillCode>>)}

PatternResponses ==
    {PatternsNoJson,
     PatternsJson(TRUE, <<"login form is shown">>, <<"error">>, <<>>),
     PatternsJson(TRUE, <<>>, <<"error">>, <<MemoryCheck("code", Undef, Undef)>>)}

ExtractResponses == {ExtractText("B-42"), ExtractText(""), ExtractThrows}

\* the sets of indices at which callTool rejects that are explored for n
\* actions: no call, or the last one
FailureSets(n) == {{}} \cup (IF n > 0 THEN {{n}} ELSE {})

\* the answers that can make a difference to one run of `step`, drawn from
\* the given snapshots and responses: a special command asks the oracle
\* nothing and reads no page, an auto-pass step is not verified
StepEnvs(step, Snaps, Resps, Snaps2, Presps) ==
    LET special == ParseSpecialCommand(step.instruction).type /= "none"
        verified == step.expectedResult /= AUTO_PASS
        S1 == IF special THEN {Snapshot(TRUE, BlankPage)} ELSE Snaps
        R == IF special THEN {ActionsNoJson} ELSE Resps
        Fails(resp) == IF special THEN FailureSets(1) ELSE FailureSets(Len(resp.actions))
        S2 == IF verified THEN Snaps2 ELSE {Snapshot(TRUE, BlankPage)}
        P == IF verified THEN Presps ELSE {PatternsNoJson}
    IN  UNION {{LearnEnv(snap, resp, fails, snap2, presp) :
                    snap \in S1, fails \in Fails(resp), snap2 \in S2, presp \in P} :
               resp \in R}

\* the answers explored for a step of a suite run
SuiteEnvs(step) ==
    StepEnvs(step,
             {Snapshot(TRUE, BlankPage), Snapshot(FALSE, BlankPage)},
             {ActionsNoJson, ActionsJson(<<ClickLogin>>)},
             {Snapshot(TRUE, FormPage), Snapshot(TRUE, ErrorPage),
              Snapshot(FALSE, BlankPage)},
             {PatternsNoJson,
              PatternsJson(TRUE, <<"login form is shown">>, <<"error">>, <<>>)})

-----------------------------------------------------------------------------
(* runTestSuite *)

StepIndices == 0..(MaxSteps - 1)

\* the steps parseTestFile yields for the lines of the model
SuiteSteps ==
    {StepOf(ParseBrowserPrefix(l).cleanInstruction, ParseBrowserPrefix(l).browserNum) :
        l \in Lines}

Scenarios == UNION {[1..n -> SuiteSteps] : n \in 0..MaxSteps}

\* the head of `for (let i = 0; i < testSteps.length; i++)` for index i
EnterStep(st, i) ==
    IF i < Len(st.testSteps)
    THEN [pc |-> "retry",
          st |-> [st EXCEPT !.currentStepIndex = i,
                            !.browserNum = st.testSteps[i + 1].browserNum]]
    ELSE [pc |-> "done", st |-> st]

\* a slip runTestSuite could make: the loop goes on after a failed step
AfterStepNeverBreaks(st) == EnterStep(st, st.currentStepIndex + 1)

\* runTestSuite after runStepWithRetry returned st: break, or the next step
AfterStep(st) ==
    IF ~st.shouldContinue THEN [pc |-> "done", st |-> st]
    ELSE EnterStep(st, st.currentStepIndex + 1)

\* runTestSuite up to the first step: the clients are initialized and the
\* state is built from the parsed steps
SuiteBegin ==
    /\ pc = "start"
    /\ LET e == EnterStep(TestState(state.testSteps, 0, <<>>, <<>>, TRUE, 1), 0)
       IN  pc' = e.pc /\ state' = e.st
    /\ attempt' = 0
    /\ UNCHANGED <<overlapVars, sessionVars, wireVars, parseVars, invoked,
                   runnerVars, planStoreVars, serverVars, cliVars, evalVars,
                   modeVars>>

\* one iteration of the while loop of runStepWithRetry for the current step,
\* and, when it returns, runTestSuite up to the next call
SuiteAttempt ==
    /\ pc = "retry"
    /\ MayAttempt(attempt, maxRetries)
    /\ \E env \in SuiteEnvs(state.testSteps[state.currentStepIndex + 1]) :
        LET i == state.currentStepIndex
            stateForAttempt == [state EXCEPT !.results = WithoutStep(state.results, i)]
            r == InvokeStep(stateForAttempt, Mem(memory, memoryFile), env)
        IN  /\ invoked' = [invoked EXCEPT ![i] = @ + 1]
            /\ memory' = r.mem.map
            /\ memoryFile' = r.mem.file
            /\ oracle' = oracle \cup r.calls
            /\ IF r.threw
               THEN pc' = "threw" /\ UNCHANGED <<state, attempt>>
               ELSE IF StepSucceeded(r.st, i)
               THEN LET a == AfterStep(r.st)
                    IN  pc' = a.pc /\ state' = a.st /\ attempt' = 0
               ELSE pc' = "retry" /\ state' = r.st /\ attempt' = attempt + 1
    /\ UNCHANGED <<overlapVars, sessionVars, wireVars, parseVars, maxRetries,
                   planStoreVars, planFile, req, finished, cliVars, evalVars,
                   modeVars>>

\* runStepWithRetry leaves its loop with all retries exhausted
SuiteExhausted ==
    /\ pc = "retry"
    /\ ~MayAttempt(attempt, maxRetries)
    /\ LET a == AfterStep(state)
       IN  pc' = a.pc /\ state' = a.st
    /\ attempt' = 0
    /\ UNCHANGED <<overlapVars, sessionVars, wireVars, parseVars, invoked,
                   runnerVars, planStoreVars, serverVars, cliVars, evalVars,
                   modeVars>>

-----------------------------------------------------------------------------
(* The plan store on its own: upsertPlanStep applied to steps of any content *)

\* plan steps of differing content for each instruction line
SomeSteps ==
    {PlanStep(l, "action", acts, NoCommand, NoVerification, DefaultDelay, 1, "now", fc) :
        l \in Lines, acts \in {<<>>, <<PlanAction(ClickLogin, "Login", "button", <<>>, Undef)>>},
        fc \in 0..MaxFailCount}

Upsert(step) ==
    /\ Len(upsertLog) < MaxUpserts
    /\ plan' = UpsertPlanStep(plan, step)
    /\ upsertLog' = Append(upsertLog, step)
    /\ UNCHANGED <<overlapVars, sessionVars, wireVars, parseVars, runnerVars,
                   suiteVars, serverVars, cliVars, evalVars, modeVars>>

-----------------------------------------------------------------------------
(* The web server: /api/learn-single and /api/run-single-plan, one request *)
(* in flight at a time, all on the shared runner                           *)

\* loadPlan(scenarioName): the document savePlan wrote, parsed.  A property
\* whose value is undefined is left out by JSON.stringify and reads back as
\* undefined; strings, numbers, null and arrays come back as written.
LoadPlan(file) == file

\* savePlan(plan): the file after the call; a failed write is only logged
SavePlan(file, p, written) == IF written THEN p ELSE file

NoEnv == [noEnv |-> TRUE]
\* no scenario files are at hand, nothing has been parsed
NoFiles == [noFiles |-> TRUE]
NotParsed == [notParsed |-> TRUE]

\* the locals of the request handler in flight
Req(op, at, instruction, browserNum, loadedPlan, planStep, replayEnv, replay, result, updatedPlanStep, planUpdated, saved, learnRuns) ==
    [op |-> op, pc |-> at, instruction |-> instruction, browserNum |-> browserNum,
     plan |-> loadedPlan, planStep |-> planStep, replayEnv |-> replayEnv,
     replay |-> replay, result |-> result, updatedPlanStep |-> updatedPlanStep,
     planUpdated |-> planUpdated, saved |-> saved, learnRuns |-> learnRuns]

IdleReq ==
    Req("none", "idle", LoginLine, 1, NoPlan, NoStep, NoEnv, NoResult, NoResult, NoStep,
        FALSE, FALSE, 0)

\* a slip runSingleStepWithPlan could make: learn on a cache miss
PlanModeLearnsOnMiss(planStep, learningMode) ==
    IF learningMode THEN "learn"
    ELSE IF planStep /= NoStep /\ planStep.learnedAt \notin {Null, Undef, ""} THEN "replay"
    ELSE "learn"

\* runSingleStepWithPlan: the branch taken for the plan step found
PlanMode(planStep, learningMode) ==
    IF learningMode THEN "learn"
    ELSE IF planStep /= NoStep /\ planStep.learnedAt \notin {Null, Undef, ""} THEN "replay"
    ELSE "plain"

\* a slip runSingleStepWithPlan could make: the failure counter is not carried over
FallbackKeepsLearnedCount(newPlanStep, planStep) == newPlanStep

\* runSingleStepWithPlan: newPlanStep.failCount = planStep.failCount + 1
FallbackPlanStep(newPlanStep, planStep) ==
    [newPlanStep EXCEPT !.failCount = planStep.failCount + 1]

\* the `|| { scenarioName, ..., steps: [] }` of both handlers
PlanOrNew(loaded) == IF loaded = NoPlan THEN EmptyPlan ELSE loaded

\* the answers explored for a learning run of `step` on the server: the
\* oracle proposes the actions that fit the instruction, or nothing usable
LearnEnvs(step) ==
    StepEnvs(step,
             {Snapshot(TRUE, LoginPage), Snapshot(FALSE, BlankPage)},
             {ActionsNoJson,
              IF step.instruction = LoginLine.text THEN ActionsJson(<<ClickLogin>>)
              ELSE ActionsJson(<<StoreCode, FillCode>>)},
             {Snapshot(TRUE, FormPage), Snapshot(TRUE, ErrorPage),
              Snapshot(FALSE, BlankPage)},
             {PatternsNoJson,
              PatternsJson(TRUE, <<"login form is shown">>, <<"error">>, <<>>)})

\* the answers that can make a difference to one replay of planStep
ReplayEnvs(planStep) ==
    LET special == planStep.type = "special"
        n == Len(planStep.actions)
        extracts == \E i \in 1..n : planStep.actions[i].extractionHint /= <<>>
        S1 == IF special THEN {Snapshot(TRUE, BlankPage)}
              ELSE {Snapshot(TRUE, LoginPage), Snapshot(TRUE, BlankPage),
                    Snapshot(FALSE, BlankPage)}
        F == IF special THEN FailureSets(1) ELSE FailureSets(n)
        E == IF extracts THEN ExtractResponses ELSE {ExtractThrows}
        S2 == IF planStep.verification /= NoVerification
              THEN {Snapshot(TRUE, FormPage), Snapshot(TRUE, ErrorPage),
                    Snapshot(FALSE, BlankPage)}
              ELSE {Snapshot(TRUE, BlankPage)}
    IN  {ReplayEnv(snap, fails, eresp, snap2) :
            snap \in S1, fails \in F, eresp \in E, snap2 \in S2}

\* the request handler may start: no other request is in flight
MayStart == req.pc \in {"idle", "completed", "failed"} /\ finished < MaxRequests

\* POST /api/learn-single up to the call of runSingleStepLearning
StartLearn(line) ==
    /\ MayStart
    /\ req' = Req("learn", "learn", line, ParseBrowserPrefix(line).browserNum, NoPlan,
                  NoStep, NoEnv, NoResult, NoResult, NoStep, FALSE, FALSE, 0)
    /\ oracle' = {}
    /\ UNCHANGED <<overlapVars, sessionVars, wireVars, parseVars, planFile,
                   finished, runnerVars, suiteVars, planStoreVars, cliVars,
                   evalVars, modeVars>>

\* runLearnSingleInstruction from the return of runSingleStepLearning on:
\* the captured step is keyed by the full line, upserted and saved
LearnRun ==
    /\ req.op = "learn" /\ req.pc = "learn"
    /\ LET clean == ParseBrowserPrefix(req.instruction).cleanInstruction
       IN  \E env \in LearnEnvs(StepOf(clean, req.browserNum)), written \in BOOLEAN :
             LET r == RunSingleStepLearning(clean, req.browserNum,
                                            Mem(memory, memoryFile), env)
                 planStep == [r.planStep EXCEPT !.originalInstruction = req.instruction]
             IN  /\ memory' = r.mem.map
                 /\ memoryFile' = r.mem.file
                 /\ oracle' = oracle \cup r.calls
                 /\ finished' = finished + 1
                 /\ IF r.threw
                    THEN /\ req' = [req EXCEPT !.pc = "failed", !.learnRuns = 1]
                         /\ planFile' = planFile
                    ELSE /\ planFile' = SavePlan(planFile,
                                            UpsertPlanStep(PlanOrNew(LoadPlan(planFile)),
                                                           planStep),
                                            written)
                         /\ req' = [req EXCEPT !.pc = "completed", !.result = r.result,
                                               !.updatedPlanStep = planStep,
                                               !.saved = written, !.learnRuns = 1]
    /\ UNCHANGED <<overlapVars, sessionVars, wireVars, parseVars, maxRetries,
                   suiteVars, planStoreVars, cliVars, evalVars, modeVars>>

\* a slip runSingleStepWithPlan could make: a failed replay is returned as it is
ReplayNeverFallsBack(replayResult) == TRUE

\* a slip runSingleStepWithPlan could make: the step is learned again after
\* every replay
ReplayAlwaysFallsBack(replayResult) == FALSE

\* runSingleStepWithPlan: `if (replayResult.success)`
ReplaySucceeded(replayResult) == replayResult.success

\* POST /api/run-single-plan up to the first await of runSingleStepWithPlan:
\* the plan is loaded, the step is looked up under the full line, and the
\* branch is chosen; the plain branch enters runSingleStep
StartPlan(line) ==
    /\ MayStart
    /\ LET browserNum == ParseBrowserPrefix(line).browserNum
           clean == ParseBrowserPrefix(line).cleanInstruction
           loaded == LoadPlan(planFile)
           planStep == FindPlanStep(loaded, line)
           mode == PlanMode(planStep, FALSE)
       IN  /\ req' = Req("plan", mode, line, browserNum, loaded, planStep, NoEnv,
                         NoResult, NoResult, NoStep, FALSE, FALSE, 0)
           /\ IF mode = "plain"
              THEN /\ state' = TestState(<<StepOf(clean, browserNum)>>, 0, <<>>, <<>>,
                                         TRUE, browserNum)
                   /\ pc' = "retry"
              ELSE UNCHANGED <<state, pc>>
    /\ attempt' = 0
    /\ invoked' = [i \in StepIndices |-> 0]
    /\ oracle' = {}
    /\ UNCHANGED <<overlapVars, sessionVars, wireVars, parseVars, planFile,
                   finished, runnerVars, planStoreVars, cliVars, evalVars,
                   modeVars>>

\* runSingleStepWithPlan from the return of replayPlanStep on: a successful
\* replay is the result of the request, a failed one leads to the fallback
Replay ==
    /\ req.op = "plan" /\ req.pc = "replay"
    /\ \E env \in ReplayEnvs(req.planStep) :
          LET r == ReplayPlanStep(req.planStep, req.browserNum,
                                  Mem(memory, memoryFile), env)
              seen == [req EXCEPT !.replayEnv = env, !.replay = r]
          IN  /\ memory' = r.mem.map
              /\ memoryFile' = r.mem.file
              /\ oracle' = oracle \cup r.calls
              /\ IF r.threw
                 THEN req' = [seen EXCEPT !.pc = "failed"] /\ finished' = finished + 1
                 ELSE IF ReplaySucceeded(r)
                 THEN /\ req' = [seen EXCEPT !.pc = "completed", !.result = r.result]
                      /\ finished' = finished + 1
                 ELSE req' = [seen EXCEPT !.pc = "fallback"] /\ finished' = finished
    /\ UNCHANGED <<overlapVars, sessionVars, wireVars, parseVars, planFile,
                   maxRetries, suiteVars, planStoreVars, cliVars, evalVars,
                   modeVars>>

\* runSingleStepWithPlan from the return of its runSingleStepLearning call on
\* (learning mode, or the fallback after a failed replay), and the handler's
\* `if (planUpdated && updatedPlanStep && scenarioName)` block
Relearn ==
    /\ req.op = "plan" /\ req.pc \in {"learn", "fallback"}
    /\ LET clean == ParseBrowserPrefix(req.instruction).cleanInstruction
       IN  \E env \in LearnEnvs(StepOf(clean, req.browserNum)), written \in BOOLEAN :
             LET r == RunSingleStepLearning(clean, req.browserNum,
                                            Mem(memory, memoryFile), env)
                 newPlanStep == IF req.pc = "fallback"
                                THEN FallbackPlanStep(r.planStep, req.planStep)
                                ELSE r.planStep
                 updatedPlanStep ==
                     [newPlanStep EXCEPT !.originalInstruction = req.instruction]
             IN  /\ memory' = r.mem.map
                 /\ memoryFile' = r.mem.file
                 /\ oracle' = oracle \cup r.calls
                 /\ finished' = finished + 1
                 /\ IF r.threw
                    THEN /\ req' = [req EXCEPT !.pc = "failed", !.learnRuns = @ + 1]
                         /\ planFile' = planFile
                    ELSE /\ planFile' = SavePlan(planFile,
                                            UpsertPlanStep(PlanOrNew(LoadPlan(planFile)),
                                                           updatedPlanStep),
                                            written)
                         /\ req' = [req EXCEPT !.pc = "completed", !.result = r.result,
                                               !.updatedPlanStep = updatedPlanStep,
                                               !.planUpdated = TRUE,
                                               !.saved = written, !.learnRuns = @ + 1]
    /\ UNCHANGED <<overlapVars, sessionVars, wireVars, parseVars, maxRetries,
                   suiteVars, planStoreVars, cliVars, evalVars, modeVars>>

\* runSingleStep's `finalState.results[0] || { ... actualResult: 'No result' ... }`
FirstResultOr(st) ==
    IF Len(st.results) > 0 THEN st.results[1]
    ELSE TestResult(0, st.testSteps[1].instruction, st.testSteps[1].expectedResult,
                    ActualResult("No result", Undef, Undef, Undef, <<>>), FALSE, <<>>)

\* runStepWithRetry has returned to runSingleStep (or an exception left it):
\* runSingleStepWithPlan returns { result } and the handler completes
PlainReturn ==
    /\ req.op = "plan" /\ req.pc = "plain"
    /\ pc \in {"done", "threw"}
    /\ req' = IF pc = "threw" THEN [req EXCEPT !.pc = "failed"]
              ELSE [req EXCEPT !.pc = "completed", !.result = FirstResultOr(state)]
    /\ pc' = "idle"
    /\ finished' = finished + 1
    /\ UNCHANGED <<overlapVars, sessionVars, wireVars, parseVars, state,
                   attempt, invoked, planFile, oracle, runnerVars,
                   planStoreVars, cliVars, evalVars, modeVars>>

-----------------------------------------------------------------------------
(* Initial states and specifications *)

PlanStoreIdle ==
    /\ plan = EmptyPlan
    /\ upsertLog = <<>>

SuiteIdle ==
    /\ state = TestState(<<>>, 0, <<>>, <<>>, TRUE, 1)
    /\ attempt = 0
    /\ pc = "idle"
    /\ invoked = [i \in StepIndices |-> 0]

ServerIdle ==
    /\ planFile = NoPlan
    /\ req = IdleReq
    /\ oracle = {}
    /\ finished = 0

RunnerInit(retries) ==
    /\ maxRetries \in retries
    /\ memory = EmptyMemory
    /\ memoryFile = EmptyMemory

CliIdle == exitCode = <<>>

EvalIdle ==
    /\ evalIn = NoVerification
    /\ evalOut = <<>>

ModeIdle ==
    /\ trial = NoEnv
    /\ outcome = NoResult

ParseIdle ==
    /\ files = NoFiles
    /\ parsed = NotParsed

WireIdle == wire = <<>>

\* no call has been made on a runner
NoCall == [noCall |-> TRUE]

SessionIdle ==
    /\ mcpClient1 = Null
    /\ mcpClient2 = Null
    /\ sharedRunner = Null
    /\ runnerInitialized = FALSE
    /\ lastCall = NoCall

OverlapIdle == handlers = <<>>

PlanStoreInit ==
    PlanStoreIdle /\ SuiteIdle /\ ServerIdle /\ CliIdle /\ EvalIdle /\ ModeIdle /\ ParseIdle /\ WireIdle
        /\ SessionIdle /\ OverlapIdle
        /\ RunnerInit({DefaultMaxRetries})
PlanStoreNext == \E step \in SomeSteps : Upsert(step)
PlanStoreSpec == PlanStoreInit /\ [][PlanStoreNext]_vars

SuiteInit ==
    /\ PlanStoreIdle /\ ServerIdle /\ CliIdle /\ EvalIdle /\ ModeIdle /\ ParseIdle /\ WireIdle
        /\ SessionIdle /\ OverlapIdle
    /\ RunnerInit(0..DefaultMaxRetries)
    /\ state \in {TestState(steps, 0, <<>>, <<>>, TRUE, 1) : steps \in Scenarios}
    /\ attempt = 0
    /\ pc = "start"
    /\ invoked = [i \in StepIndices |-> 0]
SuiteNext == SuiteBegin \/ SuiteAttempt \/ SuiteExhausted
SuiteSpec == SuiteInit /\ [][SuiteNext]_vars

Init ==
    PlanStoreIdle /\ SuiteIdle /\ ServerIdle /\ CliIdle /\ EvalIdle /\ ModeIdle /\ ParseIdle /\ WireIdle
        /\ SessionIdle /\ OverlapIdle
        /\ RunnerInit({DefaultMaxRetries})
Next ==
    \/ \E line \in Lines : StartLearn(line)
    \/ LearnRun
    \/ \E line \in Lines : StartPlan(line)
    \/ Replay
    \/ Relearn
    \/ SuiteAttempt
    \/ SuiteExhausted
    \/ PlainReturn
Spec == Init /\ [][Next]_vars

-----------------------------------------------------------------------------
(* Properties of the plan store (PlanStoreSpec) *)

\* the step most recently handed to upsertPlanStep for instruction l
LastUpserted(l) ==
    LET K == {k \in 1..Len(upsertLog) : upsertLog[k].originalInstruction = l}
    IN  IF K = {} THEN NoStep ELSE upsertLog[MaxOf(K)]

\* C10: starting from an empty plan, after any sequence of upsertPlanStep
\* calls the plan holds at most one step per originalInstruction,
\* findPlanStep returns the most recently upserted step of a key (nothing
\* for a key never upserted), and the number of steps is the number of
\* distinct keys upserted: replacing a step does not grow the plan.
C10_UpsertOneStepPerKey ==
    /\ \A i, j \in 1..Len(plan.steps) :
          i /= j => plan.steps[i].originalInstruction /= plan.steps[j].originalInstruction
    /\ \A l \in Lines : FindPlanStep(plan, l) = LastUpserted(l)
    /\ Len(plan.steps) = Cardinality({l \in Lines : LastUpserted(l) /= NoStep})

\* two steps of the same key and different content have been upserted
C10_Witness ==
    /\ Len(upsertLog) = 2
    /\ upsertLog[1].originalInstruction = upsertLog[2].originalInstruction
    /\ upsertLog[1] /= upsertLog[2]
    /\ plan.steps = <<upsertLog[2]>>

-----------------------------------------------------------------------------
(* Properties of the retry loop and of the suite run (SuiteSpec) *)

\* step i has been run and runStepWithRetry has returned for it
Finished(i) == invoked[i] > 0 /\ (i < state.currentStepIndex \/ pc = "done")

C1_Counts ==
    \A i \in StepIndices :
        /\ invoked[i] <= maxRetries + 1
        /\ (pc = "retry" /\ i = state.currentStepIndex)
              => invoked[i] = attempt /\ ~StepSucceeded(state, i)
        /\ (Finished(i) /\ ~StepSucceeded(state, i)) => invoked[i] = maxRetries + 1

C1_NoAttemptAfterSuccess ==
    \A i \in StepIndices : StepSucceeded(state, i) => invoked'[i] = invoked[i]

\* C1: with maxRetries = N a step whose verification fails on every attempt
\* is attempted exactly N + 1 times and then accepted as failed; while a
\* step is being retried every attempt made so far has failed, and once an
\* attempt succeeds the step is never attempted again, so a step that
\* succeeds on attempt k is attempted exactly k times.
C1_RetryBound == [](C1_Counts) /\ [][C1_NoAttemptAfterSuccess]_vars

\* a step failed all 3 attempts of the default maxRetries = 2
C1_Witness ==
    /\ maxRetries = DefaultMaxRetries
    /\ pc = "done"
    /\ Len(state.results) = 1
    /\ ~state.results[1].success
    /\ invoked[0] = 3

C2_Halted ==
    /\ \A i, j \in StepIndices : (i < j /\ invoked[j] > 0) => StepSucceeded(state, i)
    /\ \A k \in 1..Len(state.results) :
          /\ state.results[k].stepIndex = k - 1
          /\ k < Len(state.results) => state.results[k].success

C2_EarlierResultsKept ==
    \A i \in StepIndices :
        i < state.currentStepIndex =>
            OfStep(state'.results, i) = OfStep(state.results, i)

\* C2: once a step has exhausted its retries and still failed no later step
\* is attempted (a step is attempted only when every earlier step
\* succeeded), the results of the earlier steps stay as recorded, and every
\* result before the last one of the list is a success.
C2_FailFast == [](C2_Halted) /\ [][C2_EarlierResultsKept]_vars

\* a two-step run halted at its first step after 3 failed attempts
C2_Witness ==
    /\ pc = "done"
    /\ Len(state.testSteps) = 2
    /\ invoked[0] = 3
    /\ ~StepSucceeded(state, 0)
    /\ invoked[1] = 0

-----------------------------------------------------------------------------
(* Properties of the web server operations (Spec) *)

\* the step stored in the plan file under instruction line l
Stored(l) == FindPlanStep(planFile, l)

\* the request in flight is a plan run that found no learned step
CacheMiss == req.op = "plan" /\ req.planStep = NoStep

\* the request in flight is a plan run whose replay has returned
Replayed == req.op = "plan" /\ req.replay /= NoResult /\ ~req.replay.threw

\* the way the action at index i of a replayed step fails under the answers
\* env of the browser and the oracle; "none" when it does not
ActionFailure(action, i, env) ==
    IF action.type = "memory_store" /\ action.extractionHint /= <<>>
    THEN (IF ExtractDynamicValue(action.extractionRegex, action.extractionHint,
                                 env.snap.text, env.eresp).value \in {Null, ""}
          THEN "extraction" ELSE "none")
    ELSE IF /\ action.type \in {"click", "fill"}
            /\ action.textContent \notin {Undef, ""}
            /\ ResolveElementRef(action, env.snap.text) = Null
    THEN "resolution"
    ELSE IF action.type \in {"click", "fill", "navigate"} /\ i \in env.fails
    THEN "action error"
    ELSE "none"

\* the kind of failure of the replay of planStep under env, memAfter being
\* the memory its actions left; "none" when nothing fails
ReplayFailure(planStep, env, memAfter) ==
    LET F == {i \in 1..Len(planStep.actions) :
                 ActionFailure(planStep.actions[i], i, env) /= "none"}
    IN  IF planStep.type = "special" THEN "none"
        ELSE IF F /= {} THEN ActionFailure(planStep.actions[MinOf(F)], MinOf(F), env)
        ELSE IF /\ planStep.verification /= NoVerification
                /\ ~VerifyWithPatterns(planStep.verification, env.snap2.text,
                                       memAfter).success
        THEN "verification"
        ELSE "none"

\* the failure kind of the replay of the request in flight
FailureKind == ReplayFailure(req.planStep, req.replayEnv, req.replay.mem)

\* C3: the retry policy is applied in every execution mode: a request whose
\* step failed has attempted it maxRetries + 1 times, in plain mode through
\* the step workflow and in learning mode (an explicit learn, or the
\* fallback after a failed replay) through the learning run.
C3_RetryInEveryMode ==
    (req.pc = "completed" /\ ~req.result.success) =>
        /\ (CacheMiss => invoked[0] = maxRetries + 1)
        /\ (req.learnRuns > 0 => req.learnRuns = maxRetries + 1)

\* C4: in plan-replay mode every kind of replay failure (unresolvable
\* element, action error, failed extraction, verification failure) leads to
\* the fallback: exactly one learning run of the same instruction, whose
\* new plan step is returned marked for upsert when the run returns.
C4_ReplayFailureRelearnsOnce ==
    (Replayed /\ FailureKind /= "none") =>
        /\ ~req.replay.success
        /\ req.pc \in {"fallback", "completed", "failed"}
        /\ req.pc = "fallback" => req.learnRuns = 0
        /\ req.pc = "failed" => req.learnRuns = 1
        /\ req.pc = "completed" =>
              /\ req.learnRuns = 1
              /\ req.planUpdated
              /\ req.updatedPlanStep /= NoStep
              /\ req.updatedPlanStep.originalInstruction = req.instruction
              /\ req.updatedPlanStep.learnedAt = "now"
              /\ req.result.instruction = req.instruction.text

\* a replay failed verification, the step was learned again and returned
C4_Witness ==
    /\ Replayed /\ FailureKind = "verification"
    /\ req.pc = "completed" /\ req.planUpdated
    /\ req.updatedPlanStep.actions /= <<>>

\* C5: when the replay of a plan step fails because its element cannot be
\* resolved, the step is learned again and the step saved in its place has
\* the failCount stored before the replay plus one.
C5_FallbackAddsOne ==
    /\ (req.op = "plan" /\ req.pc \in {"replay", "fallback"}) =>
          Stored(req.instruction) = req.planStep
    /\ (Replayed /\ FailureKind = "resolution" /\ req.pc = "completed") =>
          /\ req.updatedPlanStep.failCount = req.planStep.failCount + 1
          /\ req.saved => Stored(req.instruction) = req.updatedPlanStep

\* a step that had already failed once was replayed, its element was not on
\* the page, and it was saved again with failCount 2
C5_Witness ==
    /\ Replayed /\ FailureKind = "resolution"
    /\ req.pc = "completed" /\ req.saved
    /\ req.planStep.failCount = 1
    /\ Stored(req.instruction).failCount = 2

\* the step taken is the completion of a learning pass of the kind given
LearnCompletes(l) ==
    /\ req.op = "learn" /\ req.pc = "learn" /\ req.instruction = l
    /\ req'.pc = "completed"
FallbackCompletes(l) ==
    /\ req.op = "plan" /\ req.pc = "fallback" /\ req.instruction = l
    /\ req'.pc = "completed"

C6_ChangeAllowed ==
    \A l \in Lines :
        LET before == Stored(l)
            after == FindPlanStep(planFile', l)
        IN  (before /= NoStep /\ after /= NoStep /\ after.failCount /= before.failCount)
            => \/ FallbackCompletes(l) /\ after.failCount = before.failCount + 1
               \/ /\ LearnCompletes(l) /\ req'.result.success
                  /\ after.failCount = 0

\* C6: over any sequence of learn and replay operations the failCount stored
\* for a key changes only by growing by one on a replay-then-relearn
\* fallback, or by being reset to 0 by a learning pass whose result was
\* successful; a learning pass that fails verification does not reset it.
C6_FailCountChanges == [][C6_ChangeAllowed]_vars

C7_FailedLearnStoresNothing ==
    \A l \in Lines :
        (/\ LearnCompletes(l)
         /\ \/ ~req'.result.success
            \/ req'.updatedPlanStep.type = "action" /\ req'.updatedPlanStep.actions = <<>>)
        => FindPlanStep(planFile', l) = Stored(l)

\* C7: a plan step (with its learnedAt) is written to the plan store only
\* after a learning pass for the instruction succeeded: a pass whose
\* verification fails, or whose oracle response yielded no actions, leaves
\* the store as it was for that key: no step where there was none, the
\* previously learned step where there was one.
C7_StoredOnlyAfterSuccess == [][C7_FailedLearnStoresNothing]_vars

\* C8: a replay asks the oracle neither for actions nor for verification;
\* the only oracle call it can make is the value extraction for a
\* memory_store action that carries an extraction hint, and a request whose
\* replay succeeded has made no other oracle call and no learning run.
C8_ReplayAsksNoOracle ==
    Replayed =>
        /\ req.replay.calls \subseteq {"extract"}
        /\ "extract" \in req.replay.calls =>
              \E i \in 1..Len(req.planStep.actions) :
                  /\ req.planStep.actions[i].type = "memory_store"
                  /\ req.planStep.actions[i].extractionHint /= <<>>
        /\ req.replay.success =>
              /\ req.pc = "completed"
              /\ oracle = req.replay.calls
              /\ req.learnRuns = 0
              /\ ~req.planUpdated

\* a verified step was replayed with success, none of its answers coming
\* from the oracle
C8_Witness ==
    /\ Replayed /\ req.replay.success
    /\ req.planStep.verification /= NoVerification
    /\ req.planStep.actions /= <<>>
    /\ oracle = {}

\* C9 as stated: after a plan run that missed the cache the step is stored,
\* so that the next run of the instruction finds it.
C9_MissStoresStep ==
    (CacheMiss /\ req.pc = "completed") => Stored(req.instruction) /= NoStep

\* C9: on a plan cache miss with learning mode off the step is run in plain
\* mode: the oracle is asked for actions and they are executed under the
\* retry policy, but no plan step is returned and nothing is upserted; the
\* plan file stays as it was loaded, so the instruction is still not cached.
C9_MissRunsPlain ==
    CacheMiss =>
        /\ planFile = req.plan
        /\ Stored(req.instruction) = NoStep
        /\ req.learnRuns = 0
        /\ ~req.planUpdated
        /\ req.updatedPlanStep = NoStep
        /\ req.pc \in {"plain", "completed", "failed"}
        /\ req.pc = "completed" =>
              /\ invoked[0] \in 1..(maxRetries + 1)
              /\ req.result = FirstResultOr(state)
              /\ \/ ParseSpecialCommand(req.instruction.text).type /= "none"
                 \/ "actions" \in oracle

\* the second request was a plan run that missed the cache: it executed the
\* oracle's actions with success and left the plan file without the step
C9_Witness ==
    /\ CacheMiss /\ req.pc = "completed" /\ req.result.success
    /\ req.instruction = LoginLine
    /\ req.result.executedActions /= <<>>
    /\ finished = 2
    /\ Stored(LoginLine) = NoStep

-----------------------------------------------------------------------------
(* Properties of the results list of a suite run (SuiteSpec) *)

C11_OnePerStep ==
    \A i \in StepIndices : Len(OfStep(state.results, i)) <= 1

C11_OthersUntouched ==
    \A j \in StepIndices :
        j /= state.currentStepIndex =>
            /\ OfStep(state'.results, j) = OfStep(state.results, j)
            /\ \A k \in 1..Len(state.results) :
                  state.results[k].stepIndex = j => state'.results[k] = state.results[k]

\* C11: at every point of a suite run the results list holds at most one
\* entry per step index, and an attempt of step i changes no entry but the
\* one of step i: the entries of the other steps are the same, in the same
\* order, before and after every attempt.
C11_RetryReplacesOwnResult == [](C11_OnePerStep) /\ [][C11_OthersUntouched]_vars

\* the second step has been retried and its failed result replaced, while
\* the result of the first step is still the first of the list
C11_Witness ==
    /\ pc = "retry"
    /\ state.currentStepIndex = 1
    /\ invoked[1] = 2
    /\ Len(state.results) = 2
    /\ state.results[1].stepIndex = 0 /\ state.results[1].success
    /\ state.results[2].stepIndex = 1 /\ ~state.results[2].success

-----------------------------------------------------------------------------
(* Failures inside a step (SuiteSpec) *)

\* runTestSuite has returned a final state
Returned == pc = "done"

\* an exception left runTestSuite: readPage rethrows a failed snapshot and
\* executeSpecialCommand does not catch a rejected tool call, and neither the
\* graph nodes nor runStepWithRetry nor runTestSuite catch anything
Escaped == pc = "threw"

\* C12: every failure inside a step, a failed page snapshot and a failed
\* tool call of a special command included, is recorded as a result with
\* success = false: no exception leaves runTestSuite, and every step whose
\* pipeline was started has a result.
C12_FailuresAreRecorded ==
    /\ ~Escaped
    /\ \A i \in StepIndices :
          (invoked[i] > 0 /\ pc \in {"retry", "done"}) => Len(OfStep(state.results, i)) = 1

-----------------------------------------------------------------------------
(* Transport failures of browser actions (SuiteSpec) *)

\* the strings the attempt made in this step appended to executionHistory
ActionsOfAttempt ==
    SubSeq(state'.executionHistory, Len(state.executionHistory) + 1,
           Len(state'.executionHistory))

\* executeMCPAction returned `${toolName} error: ${errorMsg}` for a click,
\* fill or navigate action during the attempt made in this step
TransportFailed ==
    \E k \in 1..Len(ActionsOfAttempt) :
        /\ ActionsOfAttempt[k].kind = "error"
        /\ ActionsOfAttempt[k].tool \in {"browser_click", "browser_type", "browser_navigate"}

\* C13: an attempt of a step during which the tool call of one of its
\* click, fill or navigate actions failed counts as failed, whatever the
\* verification of the page yields: its result has success = false and the
\* step is retried while retries are left.
C13_TransportFailureFailsAttempt ==
    [][(pc = "retry" /\ invoked' /= invoked /\ ~Escaped' /\ TransportFailed)
          => /\ ~StepSucceeded(state', state.currentStepIndex)
             /\ pc' = "retry"
             /\ attempt' = attempt + 1]_vars

-----------------------------------------------------------------------------
(* The command line run (run.ts) *)

\* main() after runTestSuite returned finalState:
\* process.exit(passed === total ? 0 : 1)
CliExit ==
    /\ Returned
    /\ exitCode = <<>>
    /\ LET passed == Len(SelectSeq(state.results, LAMBDA r : r.success))
           total == Len(state.results)
       IN  exitCode' = <<IF passed = total THEN 0 ELSE 1>>
    /\ UNCHANGED <<overlapVars, sessionVars, wireVars, parseVars,
                   planStoreVars, runnerVars, suiteVars, serverVars, evalVars,
                   modeVars>>

\* main().catch(console.error): the error raised from runTestSuite is
\* printed, no process.exit is called and process.exitCode is not set, so
\* the process ends with code 0 once nothing is left to run
CliAbort ==
    /\ Escaped
    /\ exitCode = <<>>
    /\ exitCode' = <<0>>
    /\ UNCHANGED <<overlapVars, sessionVars, wireVars, parseVars,
                   planStoreVars, runnerVars, suiteVars, serverVars, evalVars,
                   modeVars>>

\* run.ts builds the runner with `new LangGraphTestRunner(apiKey)`
CliInit ==
    /\ PlanStoreIdle /\ ServerIdle /\ CliIdle /\ EvalIdle /\ ModeIdle /\ ParseIdle /\ WireIdle
        /\ SessionIdle /\ OverlapIdle
    /\ RunnerInit({DefaultMaxRetries})
    /\ state \in {TestState(steps, 0, <<>>, <<>>, TRUE, 1) : steps \in Scenarios}
    /\ attempt = 0
    /\ pc = "start"
    /\ invoked = [i \in StepIndices |-> 0]
CliNext == SuiteBegin \/ SuiteAttempt \/ SuiteExhausted \/ CliExit \/ CliAbort
CliSpec == CliInit /\ [][CliNext]_vars

\* every step of the scenario was run and passed
EveryStepPassed ==
    /\ Returned
    /\ \A i \in 0..(Len(state.testSteps) - 1) : StepSucceeded(state, i)

\* C14: the process exits with code 0 if and only if every step of the
\* scenario run passed, and with code 1 otherwise, also when the run was
\* aborted by an error raised from runTestSuite.
C14_ExitCodeTellsOutcome ==
    exitCode /= <<>> => exitCode = <<IF EveryStepPassed THEN 0 ELSE 1>>

-----------------------------------------------------------------------------
(* The transport calls and the waits of a run, in the order they are made *)

\* a slip getMcpClient could make: every call goes to the first client
FirstClientOnly(browserNum) == "mcpClient1"

\* getMcpClient(browserNum)
GetMcpClient(browserNum) == IF browserNum = 1 THEN "mcpClient1" ELSE "mcpClient2"

\* mcpClient.callTool({name: tool, ...}) on a client; setTimeout of ms
CallTool(client, tool) == [client |-> client, tool |-> tool, ms |-> 0]
Wait(ms) == [client |-> "timer", tool |-> "setTimeout", ms |-> ms]

\* readPage(sessionId, browserNum)
ReadPageWire(browserNum) == <<CallTool(GetMcpClient(browserNum), "browser_snapshot")>>

\* executeSpecialCommand(cmd, browserNum); callFails: the first callTool rejects
SpecialWire(cmd, browserNum, callFails) ==
    LET c == GetMcpClient(browserNum)
        settle(calls, ms) == IF callFails THEN SubSeq(calls, 1, 1)
                             ELSE calls \o <<Wait(ms)>>
    IN  IF cmd.type = "navigate" /\ cmd.url \notin {Undef, ""}
        THEN settle(<<CallTool(c, "browser_navigate")>>, 2000)
        ELSE IF cmd.type = "reset"
        THEN settle(<<CallTool(c, "browser_evaluate"), CallTool(c, "browser_evaluate")>>,
                    2000)
        ELSE IF cmd.type = "scroll"
        THEN settle(<<CallTool(c, "browser_evaluate")>>, 500)
        ELSE <<>>

\* executeMCPAction(action, browserNum), told from the string it returned:
\* memory operations and unknown action types call no tool
RECURSIVE ActionsWire(_, _, _)
ActionsWire(strs, i, browserNum) ==
    IF i > Len(strs) THEN <<>>
    ELSE (IF strs[i].tool \in {"browser_click", "browser_type", "browser_navigate"}
          THEN <<CallTool(GetMcpClient(browserNum), strs[i].tool)>>
          ELSE <<>>)
         \o ActionsWire(strs, i + 1, browserNum)

\* the settle wait and the page read of a verified step, or the wait of an
\* auto-pass step
SettleWire(verified, delay, browserNum) ==
    IF verified THEN <<Wait(delay)>> \o ReadPageWire(browserNum)
    ELSE <<Wait(Max(delay, 200))>>

\* executeStepActions(step, pageContent, executionHistory, browserNum)
ExecuteWire(step, browserNum, ex, callFails) ==
    IF ParseSpecialCommand(step.instruction).type /= "none"
    THEN SpecialWire(ParseSpecialCommand(step.instruction), browserNum, callFails)
    ELSE ActionsWire(ex.executedActions, 1, browserNum)

\* one stepApp.invoke(state): readPage and executeStep use state.browserNum,
\* verifyStep waits step.delay
PlainWire(st, mem, env) ==
    LET step == st.testSteps[st.currentStepIndex + 1]
        ex == ExecuteStepActions(step, mem, env.resp, env.fails)
    IN  ReadPageWire(st.browserNum)
        \o (IF ~env.snap.ok THEN <<>>
            ELSE ExecuteWire(step, st.browserNum, ex, env.fails /= {})
                 \o (IF ex.threw THEN <<>>
                     ELSE SettleWire(step.expectedResult /= AUTO_PASS, step.delay,
                                     st.browserNum)))

\* runSingleStepLearning(instruction, browserNum)
LearnWire(line, browserNum, mem, env) ==
    LET step == StepOf(line, browserNum)
        cmd == ParseSpecialCommand(step.instruction)
        ex == ExecuteStepActions(step, mem, env.resp, env.fails)
    IN  IF cmd.type /= "none" THEN SpecialWire(cmd, browserNum, env.fails /= {})
        ELSE ReadPageWire(browserNum)
             \o (IF ~env.snap.ok THEN <<>>
                 ELSE ActionsWire(ex.executedActions, 1, browserNum)
                      \o SettleWire(step.expectedResult /= AUTO_PASS, step.delay,
                                    browserNum))

\* replayPlanStep(planStep, browserNum)
ReplayWire(planStep, browserNum, mem, env) ==
    LET run == ReplayActions(planStep.actions, 1, mem, <<>>, {}, env)
    IN  IF planStep.type = "special" /\ planStep.specialCommand /= NoCommand
        THEN SpecialWire(planStep.specialCommand, browserNum, env.fails /= {})
        ELSE ReadPageWire(browserNum)
             \o (IF ~env.snap.ok THEN <<>>
                 ELSE ActionsWire(run.executed, 1, browserNum)
                      \o (IF run.status = "failed" THEN <<>>
                          ELSE SettleWire(planStep.verification /= NoVerification,
                                          planStep.delay, browserNum)))

\* what the wire history keeps of one run: its mode, the step it ran and
\* the browser that step declares
Run(mode, step, browserNum, events) ==
    [mode |-> mode, step |-> step, browserNum |-> browserNum, events |-> events]

-----------------------------------------------------------------------------
(* One learning run against one plain attempt of the same step *)

\* executionHistory at the start of the attempt: empty (first attempt of a
\* first step), one entry, or HistorySlice entries of earlier attempts
Histories ==
    LET before == ActionStr("ok", "browser_click", "Login", "e1", Undef, Undef, Undef)
    IN  {<<>>, <<before>>, [k \in 1..HistorySlice |-> before]}

\* the answers of browser and oracle a trial is run against
TrialEnvs ==
    {LearnEnv(snap, resp, fails, snap2, presp) :
        snap \in {Snapshot(TRUE, LoginPage), Snapshot(FALSE, BlankPage)},
        resp \in {ActionsNoJson, ActionsJson(<<ClickLogin>>),
                  ActionsJson(<<StoreCode, FillCode>>)},
        fails \in FailureSets(1),
        snap2 \in {Snapshot(TRUE, FormPage), Snapshot(TRUE, ErrorPage),
                   Snapshot(FALSE, BlankPage)},
        presp \in {PatternsNoJson,
                   PatternsJson(TRUE, <<"login form is shown">>, <<"error">>, <<>>)}}

Trial(line, history, env) == [line |-> line, history |-> history, env |-> env]

Outcome(learning, plain) == [learning |-> learning, plain |-> plain]

\* what is compared of a run: whether it threw and, if not, its Test Result
RunOutcome(threw, result) == [threw |-> threw, result |-> result]

\* runSingleStepLearning(instruction, browserNum) on the trial
LearnOnce ==
    /\ outcome.learning = NoResult
    /\ LET p == ParseBrowserPrefix(trial.line)
           r == RunSingleStepLearning(p.cleanInstruction, p.browserNum,
                                      Mem(memory, memoryFile), trial.env)
       IN  /\ outcome' = [outcome EXCEPT !.learning = RunOutcome(r.threw, r.result)]
           /\ wire' = Append(wire,
                             Run("learning", 0, p.browserNum,
                                 LearnWire(p.cleanInstruction, p.browserNum,
                                           Mem(memory, memoryFile), trial.env)))
    /\ UNCHANGED <<overlapVars, sessionVars, parseVars, trial, planStoreVars,
                   runnerVars, suiteVars, serverVars, cliVars, evalVars>>

\* one stepApp.invoke of the plain workflow (readPage, executeStep,
\* verifyStep) on the trial, as runStepWithRetry makes it
PlainOnce ==
    /\ outcome.plain = NoResult
    /\ LET p == ParseBrowserPrefix(trial.line)
           st == TestState(<<StepOf(p.cleanInstruction, p.browserNum)>>, 0, <<>>,
                           trial.history, TRUE, p.browserNum)
           r == InvokeStep(st, Mem(memory, memoryFile), trial.env)
       IN  /\ outcome' =
                [outcome EXCEPT !.plain =
                    RunOutcome(r.threw,
                               IF r.threw THEN NoResult
                               ELSE r.st.results[Len(r.st.results)])]
           /\ wire' = Append(wire,
                             Run("plain", 0, p.browserNum,
                                 PlainWire(st, Mem(memory, memoryFile), trial.env)))
    /\ UNCHANGED <<overlapVars, sessionVars, parseVars, trial, planStoreVars,
                   runnerVars, suiteVars, serverVars, cliVars, evalVars>>

\* a replay was made on the trial
ReplayMade == \E k \in 1..Len(wire) : wire[k].mode = "replay"

\* replayPlanStep(planStep, browserNum) of the plan step the learning run on
\* the trial captured
ReplayOnce ==
    /\ outcome.learning /= NoResult
    /\ ~outcome.learning.threw
    /\ ~ReplayMade
    /\ LET p == ParseBrowserPrefix(trial.line)
           planStep == RunSingleStepLearning(p.cleanInstruction, p.browserNum,
                                             Mem(memory, memoryFile), trial.env).planStep
       IN  \E env \in ReplayEnvs(planStep) :
              wire' = Append(wire,
                             Run("replay", 0, p.browserNum,
                                 ReplayWire(planStep, p.browserNum,
                                            Mem(memory, memoryFile), env)))
    /\ UNCHANGED <<overlapVars, sessionVars, parseVars, modeVars,
                   planStoreVars, runnerVars, suiteVars, serverVars, cliVars,
                   evalVars>>

\* a scroll command that carries a custom delay
ScrollWaitLine == Line(0, "scroll down", 1200, AUTO_PASS)

ModeInit ==
    /\ PlanStoreIdle /\ SuiteIdle /\ ServerIdle /\ CliIdle /\ EvalIdle /\ ParseIdle /\ WireIdle
        /\ SessionIdle /\ OverlapIdle
    /\ RunnerInit({DefaultMaxRetries})
    /\ trial \in {Trial(line, history, env) :
                     line \in Lines \cup {ScrollWaitLine}, history \in Histories,
                     env \in TrialEnvs}
    /\ outcome = Outcome(NoResult, NoResult)
ModeNext == LearnOnce \/ PlainOnce \/ ReplayOnce
ModeSpec == ModeInit /\ [][ModeNext]_vars

\* both runs of the trial have been made
BothRan == outcome.learning /= NoResult /\ outcome.plain /= NoResult

\* the trial's instruction is a navigate, reset or scroll command
TrialIsSpecial ==
    ParseSpecialCommand(ParseBrowserPrefix(trial.line).cleanInstruction.text).type /= "none"

\* s is the sequence of the last HistorySlice entries of h \o ran
IsHistoryTail(s, h, ran) ==
    LET all == h \o ran
        drop == IF Len(all) > HistorySlice THEN Len(all) - HistorySlice ELSE 0
    IN  /\ Len(s) = Len(all) - drop
        /\ \A k \in 1..Len(s) : s[k] = all[k + drop]

-----------------------------------------------------------------------------
(* The evaluator on its own: verifyWithPatterns / verifyExpectedResult       *)
(* applied to verification specs of any content                              *)

\* longest list of match patterns, of notMatch patterns and of memory checks
MaxPatterns == 2
\* calls of the evaluator made on one input
MaxEvaluations == 2

\* the sequences over S of length at most n
SeqsUpTo(S, n) == UNION {[1..k -> S] : k \in 0..n}

\* match patterns: one that occurs in both pages, one that occurs in
\* FormPage in another case, a malformed one
MatchPatterns == {"login form is shown", "Login", "("}
\* notMatch patterns: one that occurs in ErrorPage only, a malformed one
ForbiddenPatterns == {"error", "("}
\* memory checks: a key never stored, a value pattern, a key that must be absent
MemoryChecks ==
    {MemoryCheck("token", Undef, Undef), MemoryCheck("code", "A-17", Undef),
     MemoryCheck("code", Undef, "false")}

\* the oracle's answers to the verification prompt for an evaluator input
EvalResponses ==
    {PatternsNoJson}
    \cup {PatternsJson(hasMatch, IF hasMatch THEN match ELSE <<>>, notMatch, checks) :
            hasMatch \in BOOLEAN, match \in SeqsUpTo(MatchPatterns, MaxPatterns),
            notMatch \in SeqsUpTo(ForbiddenPatterns, MaxPatterns),
            checks \in SeqsUpTo(MemoryChecks, MaxPatterns)}

\* expected-result texts that hold, between them, every character of RegexMeta
ExpectedTexts ==
    {"login form is shown", "total (due)", "3.50$ [net]", "a+b*c?", "^x|{y}\\z", "(", ""}

\* the oracle's answers that make getVerificationPatterns fall back
FallbackResponses == {PatternsNoJson, PatternsThrows, PatternsBadJson}

EvalInput(expectedResult, resp, page) ==
    [expectedResult |-> expectedResult, resp |-> resp, page |-> page]

\* the verification spec the evaluator works on
EvalVerification == GetVerificationPatterns(evalIn.expectedResult, evalIn.resp)

\* one call of the evaluator: the memory it read and what it returned
Evaluation(map, result) == [memory |-> map, result |-> result]

\* verifyWithPatterns(verification, pageContent), as runSingleStepLearning
\* and replayPlanStep call it
EvaluatePatterns ==
    /\ evalIn /= NoVerification
    /\ Len(evalOut) < MaxEvaluations
    /\ evalOut' = Append(evalOut,
                         Evaluation(memory,
                                    VerifyWithPatterns(EvalVerification, evalIn.page,
                                                       Mem(memory, memoryFile))))
    /\ UNCHANGED <<overlapVars, sessionVars, wireVars, parseVars, evalIn,
                   planStoreVars, runnerVars, suiteVars, serverVars, cliVars,
                   modeVars>>

\* verifyExpectedResult(expectedResult, pageContent), as verifyStep calls it
EvaluateExpected ==
    /\ evalIn /= NoVerification
    /\ Len(evalOut) < MaxEvaluations
    /\ evalOut' = Append(evalOut,
                         Evaluation(memory,
                                    VerifyExpectedResult(evalIn.expectedResult,
                                                         evalIn.page,
                                                         Mem(memory, memoryFile),
                                                         evalIn.resp)))
    /\ UNCHANGED <<overlapVars, sessionVars, wireVars, parseVars, evalIn,
                   planStoreVars, runnerVars, suiteVars, serverVars, cliVars,
                   modeVars>>

\* storeInMemory("code", "B-42") by another operation of the runner
StoreBetween ==
    /\ evalIn /= NoVerification
    /\ memory["code"] /= "B-42"
    /\ LET m == StoreInMemory(Mem(memory, memoryFile), "code", "B-42")
       IN  memory' = m.map /\ memoryFile' = m.file
    /\ UNCHANGED <<overlapVars, sessionVars, wireVars, parseVars, maxRetries,
                   evalVars, planStoreVars, suiteVars, serverVars, cliVars,
                   modeVars>>

EvalInit ==
    /\ PlanStoreIdle /\ SuiteIdle /\ ServerIdle /\ CliIdle /\ ModeIdle /\ ParseIdle /\ WireIdle
        /\ SessionIdle /\ OverlapIdle
    /\ maxRetries = DefaultMaxRetries
    /\ \E m \in {Mem(EmptyMemory, EmptyMemory),
                 StoreInMemory(Mem(EmptyMemory, EmptyMemory), "code", "A-17")} :
          memory = m.map /\ memoryFile = m.file
    /\ evalIn \in {EvalInput("login form is shown", resp, page) :
                      resp \in EvalResponses, page \in {FormPage, ErrorPage}}
                  \cup {EvalInput(text, resp, FormPage) :
                          text \in ExpectedTexts, resp \in FallbackResponses}
    /\ evalOut = <<>>
EvalNext == EvaluatePatterns \/ EvaluateExpected \/ StoreBetween
EvalSpec == EvalInit /\ [][EvalNext]_vars

-----------------------------------------------------------------------------
(* Properties of the evaluator (EvalSpec) *)

\* some pattern of the list matches the page text handed to the evaluator
SomeMatches(patterns) ==
    \E k \in 1..Len(patterns) : PageMatches(patterns[k], evalIn.page)

\* the memory checks of the spec that fail on the memory `map`, by position
FailingChecks(map) ==
    {k \in 1..Len(EvalVerification.memoryChecks) :
        MemoryCheckResult(EvalVerification.memoryChecks[k], Mem(map, map)) /= Passed}

\* C16: for any verification spec in which some notMatch pattern matches
\* the page text the evaluator returns failure, whatever the match patterns
\* are, also when a match pattern matches too.
C16_NotMatchPrecedence ==
    \A k \in 1..Len(evalOut) :
        SomeMatches(EvalVerification.notMatch) => ~evalOut[k].result.success

\* both a match pattern and a notMatch pattern match the page, no memory
\* check fails, and the evaluator reported the forbidden pattern
C16_Witness ==
    /\ Len(evalOut) = 1
    /\ SomeMatches(EvalVerification.match)
    /\ SomeMatches(EvalVerification.notMatch)
    /\ FailingChecks(evalOut[1].memory) = {}
    /\ ~evalOut[1].result.success
    /\ evalOut[1].result.actualResult.msg = "Found forbidden pattern"
    /\ evalOut[1].result.actualResult.pattern = "error"

\* the result the k-th call reports is the failure of the memory check at
\* position c of the spec
ReportsCheck(k, c) ==
    /\ ~evalOut[k].result.success
    /\ evalOut[k].result.actualResult
          = MemoryCheckResult(EvalVerification.memoryChecks[c],
                              Mem(evalOut[k].memory, evalOut[k].memory))

\* the result of the k-th call is that of the notMatch and match patterns
\* alone: the failure of the first notMatch pattern that matches, else the
\* verdict of the match patterns
ReportsPatterns(k) ==
    LET r == evalOut[k].result
        notMatch == EvalVerification.notMatch
        Hits == {n \in 1..Len(notMatch) : PageMatches(notMatch[n], evalIn.page)}
    IN  IF Hits /= {}
        THEN /\ ~r.success
             /\ r.actualResult.msg = "Found forbidden pattern"
             /\ r.actualResult.pattern = notMatch[MinOf(Hits)]
        ELSE r.actualResult.msg
                \in {"No forbidden patterns found", "Matched pattern", "No patterns matched"}

\* C17: the evaluator checks the memory checks first, then the notMatch
\* patterns, then the match patterns, and stops at the first failing check:
\* when memory checks fail the failure reported is that of the first failing
\* one in list order, also when a notMatch pattern matches, and the
\* patterns decide only when no memory check fails.
C17_EvaluationOrder ==
    \A k \in 1..Len(evalOut) :
        IF FailingChecks(evalOut[k].memory) /= {}
        THEN ReportsCheck(k, MinOf(FailingChecks(evalOut[k].memory)))
        ELSE ReportsPatterns(k)

\* two different memory checks fail and a notMatch pattern matches: the
\* failure reported is that of the first memory check
C17_Witness ==
    /\ Len(evalOut) = 1
    /\ FailingChecks(evalOut[1].memory) = {1, 2}
    /\ EvalVerification.memoryChecks[1] /= EvalVerification.memoryChecks[2]
    /\ SomeMatches(EvalVerification.notMatch)
    /\ ReportsCheck(1, 1)
    /\ ~ReportsCheck(1, 2)

\* the positions of the match patterns that match the page text
MatchHits ==
    {n \in 1..Len(EvalVerification.match) :
        PageMatches(EvalVerification.match[n], evalIn.page)}

\* at the k-th call no memory check fails and no notMatch pattern matches
ChecksPass(k) ==
    /\ FailingChecks(evalOut[k].memory) = {}
    /\ ~SomeMatches(EvalVerification.notMatch)

\* C18: with a non-empty match list, all memory checks passing and no
\* notMatch pattern matching, the evaluator succeeds if and only if at
\* least one match pattern matches the page text, whatever the case of the
\* letters, and it reports the first matching pattern in list order; if
\* none matches it fails and reports the patterns it tried.
C18_AnyMatchSucceeds ==
    \A k \in 1..Len(evalOut) :
        (ChecksPass(k) /\ Len(EvalVerification.match) > 0) =>
            LET r == evalOut[k].result
            IN  IF MatchHits /= {}
                THEN /\ r.success
                     /\ r.actualResult.msg = "Matched pattern"
                     /\ r.actualResult.pattern = EvalVerification.match[MinOf(MatchHits)]
                ELSE /\ ~r.success
                     /\ r.actualResult.msg = "No patterns matched"
                     /\ r.actualResult.tried = EvalVerification.match

\* both match patterns match FormPage, the first one in another case of the
\* letters ("Login" against LOGIN), and the first one is reported
C18_Witness ==
    /\ Len(evalOut) = 1
    /\ ChecksPass(1)
    /\ EvalVerification.match = <<"Login", "login form is shown">>
    /\ MatchHits = {1, 2}
    /\ evalIn.page = FormPage
    /\ evalOut[1].result.success
    /\ evalOut[1].result.actualResult.pattern = "Login"

\* C19: with an empty match list the evaluator succeeds exactly when all
\* memory checks pass and no notMatch pattern matches the page text.
C19_EmptyMatchSucceeds ==
    \A k \in 1..Len(evalOut) :
        Len(EvalVerification.match) = 0 => (evalOut[k].result.success <=> ChecksPass(k))

\* an empty match list with a notMatch pattern that does not match and a
\* memory check that passes: the evaluator succeeded
C19_Witness ==
    /\ Len(evalOut) = 1
    /\ EvalVerification.match = <<>>
    /\ EvalVerification.notMatch /= <<>>
    /\ EvalVerification.memoryChecks /= <<>>
    /\ ChecksPass(1)
    /\ evalOut[1].result.success
    /\ evalOut[1].result.actualResult.msg = "No forbidden patterns found"

\* the value the memory `map` holds under `key`, undefined when it holds none
ValueAt(map, key) == IF key \in DOMAIN map THEN map[key] ELSE Undef

\* the memory had the same content under every key a memory check of the
\* spec names at the calls i and j
SameCheckedMemory(i, j) ==
    \A c \in 1..Len(EvalVerification.memoryChecks) :
        ValueAt(evalOut[i].memory, EvalVerification.memoryChecks[c].key)
            = ValueAt(evalOut[j].memory, EvalVerification.memoryChecks[c].key)

\* C20 as stated: two calls of the evaluator with the identical spec and
\* page text return the identical result, whatever other runner operations
\* (such as a memory store) happen between the two calls.
C20_PureInSpecAndPage ==
    \A i, j \in 1..Len(evalOut) : evalOut[i].result = evalOut[j].result

\* C20, amended: the evaluator changes nothing, and its result is a
\* function of the spec, the page text and the memory content under the
\* keys the spec's memory checks name: two calls with the identical spec and
\* page text return the identical result unless a memory store changed one
\* of those keys in between; without memory checks they always do.
C20_PureUpToCheckedMemory ==
    /\ [](\A i, j \in 1..Len(evalOut) :
            SameCheckedMemory(i, j) => evalOut[i].result = evalOut[j].result)
    /\ [][evalOut' /= evalOut => UNCHANGED <<memory, memoryFile, evalIn>>]_vars

\* a memory store of "code" came between two calls on a spec whose only
\* memory check names the key "token": the two results are the same failure
C20_Witness ==
    /\ Len(evalOut) = 2
    /\ evalOut[1].memory /= evalOut[2].memory
    /\ EvalVerification.memoryChecks = <<MemoryCheck("token", Undef, Undef)>>
    /\ evalOut[1].result = evalOut[2].result
    /\ evalOut[1].result.actualResult.msg = "Memory key not found"

-----------------------------------------------------------------------------
(* The fallback of getVerificationPatterns (EvalSpec) *)

\* the text a pattern stands for when read as a regular expression made of
\* literals only, from character i on: a backslash makes the next character
\* a literal; Undef when a metacharacter stands unescaped or a backslash
\* ends the pattern
RECURSIVE LiteralFrom(_, _)
LiteralFrom(p, i) ==
    IF i > Len(p) THEN ""
    ELSE LET c == SubSeq(p, i, i)
             escaped == c = "\\" /\ i < Len(p)
             rest == LiteralFrom(p, IF escaped THEN i + 2 ELSE i + 1)
         IN  IF (c \in RegexMeta /\ ~escaped) \/ rest = Undef THEN Undef
             ELSE (IF escaped THEN SubSeq(p, i + 1, i + 1) ELSE c) \o rest

\* C21: when the oracle call fails or its response holds no parsable JSON,
\* getVerificationPatterns returns a spec with exactly one match pattern,
\* the expected-result text with every regex metacharacter escaped (read as
\* a regular expression it is that text, literally), and with empty
\* notMatch and memoryChecks.
C21_FallbackIsEscapedLiteral ==
    (evalIn /= NoVerification /\ evalIn.resp \in FallbackResponses) =>
        /\ Len(EvalVerification.match) = 1
        /\ LiteralFrom(EvalVerification.match[1], 1) = evalIn.expectedResult
        /\ EvalVerification.notMatch = <<>>
        /\ EvalVerification.memoryChecks = <<>>

\* the oracle call failed for an expected text with metacharacters, and the
\* evaluator worked on the one escaped pattern
C21_Witness ==
    /\ evalIn /= NoVerification
    /\ evalIn.resp = PatternsThrows
    /\ evalIn.expectedResult = "total (due)"
    /\ EvalVerification = VerificationSpec(<<"total \\(due\\)">>, <<>>, <<>>)
    /\ Len(evalOut) = 1
    /\ evalOut[1].result.actualResult.tried = <<"total \\(due\\)">>

-----------------------------------------------------------------------------
(* Scenario files as text: parseTestFile (ParseSpec) *)

\* longest scenario file (number of lines) read by parseTestFile in ParseSpec
MaxLines == 3

\* characters String.prototype.trim and \s take for white space
WhiteSpace == {" ", "\t"}
DecimalDigits == <<"0", "1", "2", "3", "4", "5", "6", "7", "8", "9">>
IsDigit(c) == \E k \in 1..10 : DecimalDigits[k] = c
CharAt(s, i) == SubSeq(s, i, i)

\* String.prototype.trim
Trim(s) ==
    LET keep == {i \in 1..Len(s) : CharAt(s, i) \notin WhiteSpace}
    IN  IF keep = {} THEN "" ELSE SubSeq(s, MinOf(keep), MaxOf(keep))

\* String.prototype.indexOf(sub, from), 1-based; 0 when sub does not occur
IndexOf(s, sub, from) ==
    LET at == {i \in from..(Len(s) - Len(sub) + 1) : SubSeq(s, i, i + Len(sub) - 1) = sub}
    IN  IF at = {} THEN 0 ELSE MinOf(at)

\* parseInt(digits, 10) of a run of decimal digits
RECURSIVE ParseInt(_)
ParseInt(digits) ==
    IF digits = "" THEN 0
    ELSE LET n == Len(digits)
         IN  10 * ParseInt(SubSeq(digits, 1, n - 1))
               + (CHOOSE k \in 1..10 : DecimalDigits[k] = CharAt(digits, n)) - 1

\* the first two elements of s.split('>>>').map(s => s.trim()); the second
\* is Undef when s holds no '>>>'
SplitArrow(s) ==
    LET i1 == IndexOf(s, ">>>", 1)
        i2 == IF i1 = 0 THEN 0 ELSE IndexOf(s, ">>>", i1 + 3)
    IN  IF i1 = 0 THEN <<Trim(s), Undef>>
        ELSE <<Trim(SubSeq(s, 1, i1 - 1)),
               Trim(SubSeq(s, i1 + 3, IF i2 = 0 THEN Len(s) ELSE i2 - 1))>>

\* the leftmost match of /\[\[(\d+)\]\]/ in s as <<start, end>> of the whole
\* match; <<0, 0>> when there is none
DelayMatch(s) ==
    LET ends(i) == {j \in (i + 2)..(Len(s) - 2) :
                       /\ \A k \in (i + 2)..j : IsDigit(CharAt(s, k))
                       /\ SubSeq(s, j + 1, j + 2) = "]]"}
        at == {i \in 1..(Len(s) - 1) : SubSeq(s, i, i + 1) = "[[" /\ ends(i) /= {}}
    IN  IF at = {} THEN <<0, 0>>
        ELSE <<MinOf(at), MinOf(ends(MinOf(at))) + 2>>

\* a slip parseDelayFromInstruction could make: the [[N]] marker is not read
DelayNotRead(instruction) == [cleanInstruction |-> instruction, delay |-> DefaultDelay]

\* parseDelayFromInstruction(instruction) on the instruction's text
DelayOf(instruction) ==
    LET m == DelayMatch(instruction)
    IN  IF m[1] /= 0
        THEN [cleanInstruction |->
                  Trim(SubSeq(instruction, 1, m[1] - 1)
                         \o SubSeq(instruction, m[2] + 1, Len(instruction))),
              delay |-> ParseInt(SubSeq(instruction, m[1] + 2, m[2] - 2))]
        ELSE [cleanInstruction |-> instruction, delay |-> DefaultDelay]

\* parseBrowserPrefix(instruction) on the instruction's text: /^\*([12])\s+/
BrowserPrefixOf(instruction) ==
    LET rest == {i \in 4..(Len(instruction) + 1) :
                    \A k \in 3..(i - 1) : CharAt(instruction, k) \in WhiteSpace}
    IN  IF /\ Len(instruction) >= 3
           /\ CharAt(instruction, 1) = "*"
           /\ CharAt(instruction, 2) \in {"1", "2"}
           /\ CharAt(instruction, 3) \in WhiteSpace
        THEN [browserNum |-> ParseInt(CharAt(instruction, 2)),
              cleanInstruction |-> SubSeq(instruction, MaxOf(rest), Len(instruction))]
        ELSE [browserNum |-> 1, cleanInstruction |-> instruction]

\* trimmed.match(/^##(.+\.txt)$/i): the captured file name, Null without a match
IncludeMatch(trimmed) ==
    LET n == Len(trimmed)
    IN  IF /\ n >= 7
           /\ SubSeq(trimmed, 1, 2) = "##"
           /\ CharAt(trimmed, n - 3) = "."
           /\ CharAt(trimmed, n - 2) \in {"t", "T"}
           /\ CharAt(trimmed, n - 1) \in {"x", "X"}
           /\ CharAt(trimmed, n) \in {"t", "T"}
        THEN SubSeq(trimmed, 3, n)
        ELSE Null

\* path.dirname and path.resolve(baseDir, name) for names without separators
Dirname(path) ==
    LET at == {i \in 1..Len(path) : CharAt(path, i) = "/"}
    IN  IF at = {} THEN "." ELSE SubSeq(path, 1, MaxOf(at) - 1)
ResolvePath(baseDir, name) == baseDir \o "/" \o name

\* the steps one non-include line adds (the body of the loop of
\* parseTestFileContent after the include test)
StepsOfLine(trimmed) ==
    LET p == BrowserPrefixOf(trimmed)
        parts == SplitArrow(p.cleanInstruction)
    IN  IF IndexOf(p.cleanInstruction, ">>>", 1) /= 0
        THEN IF parts[1] /= "" /\ parts[2] /= ""
             THEN <<[instruction |-> DelayOf(parts[1]).cleanInstruction,
                     expectedResult |-> parts[2],
                     delay |-> DelayOf(parts[1]).delay,
                     browserNum |-> p.browserNum]>>
             ELSE <<>>
        ELSE <<[instruction |-> DelayOf(p.cleanInstruction).cleanInstruction,
                expectedResult |-> AUTO_PASS,
                delay |-> DelayOf(p.cleanInstruction).delay,
                browserNum |-> p.browserNum]>>

\* a slip the include branch could make: the included steps replace the
\* steps gathered so far
PushOnly(steps, includedSteps) == includedSteps

\* steps.push(...includedSteps)
PushAll(steps, includedSteps) == steps \o includedSteps

Parsed(raised, steps, includedFiles) ==
    [raised |-> raised, steps |-> steps, includedFiles |-> includedFiles]

\* parseTestFileContent(filePath, baseDir, includedFiles) on the file system
\* fs: the steps returned and the shared set includedFiles as the call
\* leaves it; raised when fs.readFileSync throws
RECURSIVE ParseTestFileContent(_, _, _, _)
RECURSIVE ParseLines(_, _, _, _, _)
ParseTestFileContent(filePath, baseDir, includedFiles, fs) ==
    IF filePath \in includedFiles
    THEN Parsed(FALSE, <<>>, includedFiles)
    ELSE IF filePath \notin DOMAIN fs
    THEN Parsed(TRUE, <<>>, includedFiles \cup {filePath})
    ELSE ParseLines(fs[filePath], baseDir, Parsed(FALSE, <<>>, includedFiles \cup {filePath}),
                    1, fs)

\* the include branch once the recursive call returned r: a failed include
\* is caught and adds nothing
AfterInclude(sofar, r) ==
    Parsed(FALSE,
           IF r.raised THEN sofar.steps ELSE PushAll(sofar.steps, r.steps),
           r.includedFiles)

\* what one line of the loop leaves
AfterLine(trimmed, baseDir, sofar, fs) ==
    IF trimmed = "" THEN sofar
    ELSE IF IncludeMatch(trimmed) /= Null
    THEN AfterInclude(sofar,
                      ParseTestFileContent(ResolvePath(baseDir, IncludeMatch(trimmed)),
                                           Dirname(ResolvePath(baseDir, IncludeMatch(trimmed))),
                                           sofar.includedFiles, fs))
    ELSE Parsed(FALSE, sofar.steps \o StepsOfLine(trimmed), sofar.includedFiles)

\* the loop `for (const line of lines)` from line i on
ParseLines(lines, baseDir, sofar, i, fs) ==
    IF i > Len(lines) THEN sofar
    ELSE ParseLines(lines, baseDir, AfterLine(Trim(lines[i]), baseDir, sofar, fs),
                    i + 1, fs)

\* parseTestFile(filePath)
ParseTestFileOf(filePath, fs) ==
    ParseTestFileContent(filePath, Dirname(filePath), {}, fs)

\* the scenario files of the runs: a root a.txt that may include b.txt and
\* c.txt (and they each other and the root); d.txt does not exist
SuiteDir == "/suite"
RootFile == "/suite/a.txt"
FileB == "/suite/b.txt"
FileC == "/suite/c.txt"
IncludeLines == {"##a.txt", "##b.txt", "##c.txt"}
FileSystem(a, b, c) == [f \in {RootFile, FileB, FileC} |->
                           IF f = RootFile THEN a ELSE IF f = FileB THEN b ELSE c]
ContentsB == {<<>>, <<"tap b">>, <<"##a.txt">>, <<"##b.txt">>, <<"##c.txt">>,
              <<"tap b", "##a.txt">>, <<"##c.txt", "tap b">>}
ContentsC == {<<"tap c">>, <<"##a.txt", "tap c">>, <<"tap c", "", "##b.txt">>,
              <<"##d.txt", "tap c">>}
IncludeStructures ==
    {FileSystem(a, b, c) : a \in SeqsUpTo(IncludeLines \cup {"tap a"}, MaxLines),
                           b \in ContentsB, c \in ContentsC}

\* a line of the form `*B I [[N]] >>> E`, each part as it is written
FormLine(b, i, n, e) == b \o i \o n \o e
PrefixTexts == {"", "*1 ", "*2 ", "*2 \t "}
InstructionTexts == {"click Login", "go to https://shop.test/cart",
                     "type [[draft]] into *2 Title"}
DelayTexts == {"", " [[500]]", "[[1200]]", " [[007]] "}
ExpectedClauses == {"", " >>> login form is shown", ">>>3 items (total)"}
FormLines == {FormLine(b, i, n, e) : b \in PrefixTexts, i \in InstructionTexts,
                                     n \in DelayTexts, e \in ExpectedClauses}
\* lines that lack an instruction or an expected result
OddLines == {"   ", ">>>", ">>> done", "click Login >>>", "click Login >>>  ",
             "*2 >>> done", "*1", "*3 click Login >>> done", "[[500]]", "*1 [[500]]",
             "[[500]] >>> done", "click [[x]] >>> done", "a >>> b >>> c"}
SingleLineFiles ==
    {FileSystem(<<l>>, <<>>, <<>>) : l \in FormLines \cup OddLines}

\* parseTestFile(RootFile)
ParseTestFile ==
    /\ files /= NoFiles
    /\ parsed = NotParsed
    /\ parsed' = ParseTestFileOf(RootFile, files)
    /\ UNCHANGED <<overlapVars, sessionVars, wireVars, files, planStoreVars,
                   runnerVars, suiteVars, serverVars, cliVars, evalVars,
                   modeVars>>

ParseInit ==
    /\ PlanStoreIdle /\ SuiteIdle /\ ServerIdle /\ CliIdle /\ EvalIdle /\ ModeIdle
    /\ WireIdle /\ SessionIdle /\ OverlapIdle
    /\ RunnerInit({DefaultMaxRetries})
    /\ files \in IncludeStructures \cup SingleLineFiles
    /\ parsed = NotParsed
ParseNext == ParseTestFile
ParseSpec == ParseInit /\ [][ParseNext]_vars

-----------------------------------------------------------------------------
(* Includes of scenario files (ParseSpec) *)

\* the files the include lines of f name, resolved against the directory of f
IncludedBy(fs, f) ==
    IF f \notin DOMAIN fs THEN {}
    ELSE {ResolvePath(Dirname(f), IncludeMatch(Trim(fs[f][k]))) :
             k \in {j \in 1..Len(fs[f]) : IncludeMatch(Trim(fs[f][j])) /= Null}}

\* the files reached from the files of S through one or more include lines
RECURSIVE ReachedFrom(_, _, _)
ReachedFrom(fs, S, seen) ==
    LET next == UNION {IncludedBy(fs, f) : f \in S}
    IN  IF next \subseteq seen THEN seen
        ELSE ReachedFrom(fs, next \ seen, seen \cup next)

\* the include structure under the root holds a cycle
HasCycle(fs) ==
    \E f \in {RootFile} \cup ReachedFrom(fs, {RootFile}, {}) :
        f \in ReachedFrom(fs, {f}, {})

\* the steps of the lines of f that are no include lines, in file order
RECURSIVE OwnSteps(_, _)
OwnSteps(lines, i) ==
    IF i > Len(lines) THEN <<>>
    ELSE (IF Trim(lines[i]) = "" \/ IncludeMatch(Trim(lines[i])) /= Null
          THEN <<>> ELSE StepsOfLine(Trim(lines[i])))
         \o OwnSteps(lines, i + 1)

\* in the include structures every step line names its file
LineOfFile(f) == IF f = RootFile THEN "tap a" ELSE IF f = FileB THEN "tap b" ELSE "tap c"
StepsFromFile(steps, f) ==
    SelectSeq(steps, LAMBDA s : s.instruction = LineOfFile(f))

\* C22: parseTestFile returns without raising on scenario files whose
\* includes form a cycle: the cyclic include adds nothing, and of every file
\* under the root the steps before and after its include lines are in the
\* result, once each and in file order.
C22_CyclicIncludeSkipped ==
    (files \in IncludeStructures /\ HasCycle(files) /\ parsed /= NotParsed) =>
        /\ ~parsed.raised
        /\ \A f \in ({RootFile} \cup ReachedFrom(files, {RootFile}, {})) \cap DOMAIN files :
              StepsFromFile(parsed.steps, f) = OwnSteps(files[f], 1)

\* the root includes b.txt between two steps, b.txt includes the root again
C22_Witness ==
    /\ files = FileSystem(<<"tap a", "##b.txt", "tap a">>, <<"tap b", "##a.txt">>,
                          <<"tap c">>)
    /\ parsed /= NotParsed
    /\ ~parsed.raised
    /\ [k \in 1..Len(parsed.steps) |-> parsed.steps[k].instruction]
          = <<"tap a", "tap b", "tap a">>

\* every include line under the root names a file that exists
AllIncludesExist(fs) == ReachedFrom(fs, {RootFile}, {}) \subseteq DOMAIN fs

\* the step list of f with every include line replaced by the expanded step
\* list of the file it names (onPath: the files being expanded, which an
\* include structure without cycles never names again)
RECURSIVE Expanded(_, _, _)
RECURSIVE ExpandedLines(_, _, _, _)
Expanded(fs, f, onPath) ==
    IF f \in onPath \/ f \notin DOMAIN fs THEN <<>>
    ELSE ExpandedLines(fs, f, onPath \cup {f}, 1)
ExpandedLines(fs, f, onPath, i) ==
    IF i > Len(fs[f]) THEN <<>>
    ELSE (IF Trim(fs[f][i]) = "" THEN <<>>
          ELSE IF IncludeMatch(Trim(fs[f][i])) /= Null
          THEN Expanded(fs, ResolvePath(Dirname(f), IncludeMatch(Trim(fs[f][i]))), onPath)
          ELSE StepsOfLine(Trim(fs[f][i])))
         \o ExpandedLines(fs, f, onPath, i + 1)

\* C23: in an include structure without cycles the parsed step list holds,
\* at the position of every include line, the complete expanded step list
\* of the file the line names, also when a file is named by more than one
\* include line.
C23_IncludeExpandedInPlace ==
    (/\ files \in IncludeStructures
     /\ ~HasCycle(files)
     /\ AllIncludesExist(files)
     /\ parsed /= NotParsed) =>
        /\ ~parsed.raised
        /\ parsed.steps = Expanded(files, RootFile, {})

-----------------------------------------------------------------------------
(* Step lines (ParseSpec) *)

\* C24: every step parseTestFile returns has a non-empty instruction and a
\* non-empty expected result (the auto-pass marker for a line without
\* `>>>`), and no line makes the parse raise.
C24_StepsAreComplete ==
    parsed /= NotParsed =>
        /\ ~parsed.raised
        /\ \A k \in 1..Len(parsed.steps) :
              /\ parsed.steps[k].instruction /= ""
              /\ parsed.steps[k].expectedResult /= ""

\* what the parts of a line of the form `*B I [[N]] >>> E` stand for
BrowserWritten(b) == IF b = "" THEN 1 ELSE IF b = "*1 " THEN 1 ELSE 2
DelayWritten(n) ==
    CASE n = "" -> 200
      [] n = " [[500]]" -> 500
      [] n = "[[1200]]" -> 1200
      [] n = " [[007]] " -> 7
ExpectedWritten(e) ==
    CASE e = " >>> login form is shown" -> "login form is shown"
      [] e = ">>>3 items (total)" -> "3 items (total)"

\* C25: a line `*B I [[N]] >>> E` with B in {1, 2} parses to exactly one step
\* {browserNum B, instruction I, delay N, expectedResult E}; without the
\* prefix the browser is 1 and without `[[N]]` the delay is 200.
C25_LineParsesToItsParts ==
    \A b \in PrefixTexts, i \in InstructionTexts, n \in DelayTexts,
       e \in ExpectedClauses \ {""} :
        (files = FileSystem(<<FormLine(b, i, n, e)>>, <<>>, <<>>) /\ parsed /= NotParsed) =>
            parsed.steps = <<[instruction |-> i,
                              expectedResult |-> ExpectedWritten(e),
                              delay |-> DelayWritten(n),
                              browserNum |-> BrowserWritten(b)]>>

\* `*2 click Login [[007]] >>>3 items (total)` was parsed
C25_Witness ==
    /\ files[RootFile] = <<"*2 click Login [[007]] >>>3 items (total)">>
    /\ parsed /= NotParsed
    /\ parsed.steps = <<[instruction |-> "click Login",
                         expectedResult |-> "3 items (total)",
                         delay |-> 7, browserNum |-> 2]>>

-----------------------------------------------------------------------------
(* Steps without an expected result (Spec) *)

\* the request in flight has completed and reports a result
Completed == req.pc = "completed" /\ req.result /= NoResult

\* C26: a step without expected-result clause is recorded as successful
\* whenever its request completes, in plain, learning and replay mode,
\* whatever actions ran and whether or not they reported errors.
C26_AutoPassSucceeds ==
    (Completed /\ req.instruction.expected = AUTO_PASS) => req.result.success

\* an auto-pass step whose replay broke off on a failing action and whose
\* fallback completed with an action that reported an error
C26_Witness ==
    /\ Completed
    /\ req.instruction.expected = AUTO_PASS
    /\ req.op = "plan"
    /\ req.replay /= NoResult
    /\ ~req.replay.success
    /\ \E k \in 1..Len(req.result.executedActions) :
          IncludesError(req.result.executedActions[k])
    /\ req.result.success

-----------------------------------------------------------------------------
(* Special commands (Spec) *)

\* the request in flight carries the special command `scroll down`
ScrollRequested == req.op /= "none" /\ req.instruction = ScrollLine

\* C27: a special command is executed directly on the transport: in plain,
\* learning and replay mode its request makes no oracle call for action
\* selection, and the one action it reports is the command itself.
C27_SpecialCommandSkipsOracle ==
    ScrollRequested =>
        /\ "actions" \notin oracle
        /\ Completed =>
              /\ Len(req.result.executedActions) = 1
              /\ req.result.executedActions[1].kind = "special"
              /\ req.result.executedActions[1].tool = "scroll"

\* a replayed scroll command has completed
C27_Witness ==
    /\ ScrollRequested
    /\ Completed
    /\ req.op = "plan"
    /\ req.replay /= NoResult
    /\ req.result.executedActions[1].kind = "special"
    /\ oracle = {}

-----------------------------------------------------------------------------
(* The settle delay of special commands (ModeSpec) *)

\* the command of the run reached the transport and was not rejected
CommandRan(run) ==
    \E j \in 1..(Len(run.events) - 1) : run.events[j].tool = "browser_evaluate"

\* after its command the run waited at least ms
WaitedAfterCommand(run, ms) ==
    \E j \in 1..Len(run.events), w \in 1..Len(run.events) :
        /\ j < w
        /\ run.events[j].tool = "browser_evaluate"
        /\ run.events[w].tool = "setTimeout"
        /\ run.events[w].ms >= ms

\* C28: a special command step that carries a custom delay [[N]] waits that
\* delay after the command was executed, before its result is produced, in
\* plain, learning and replay mode.
C28_SpecialCommandWaitsDelay ==
    \A k \in 1..Len(wire) :
        (trial.line = ScrollWaitLine /\ CommandRan(wire[k])) =>
            WaitedAfterCommand(wire[k], trial.line.delayTok)

-----------------------------------------------------------------------------
(* A suite run over two browsers (RouteSpec) *)

\* a step on browser 1 that types the remembered code
FillLine == Line(1, "type the order code", NoDelayTok, AUTO_PASS)
\* a scroll command on browser 2
ScrollOtherLine == Line(2, "scroll down", NoDelayTok, AUTO_PASS)

RouteSteps ==
    {StepOf(ParseBrowserPrefix(l).cleanInstruction, ParseBrowserPrefix(l).browserNum) :
        l \in {LoginLine, StoreLine, FillLine, ScrollOtherLine}}
RouteScenarios == UNION {[1..n -> RouteSteps] : n \in 1..MaxSteps}

\* the oracle proposes a click, a memory store or a fill from memory
RouteEnvs(step) ==
    StepEnvs(step,
             {Snapshot(TRUE, LoginPage)},
             {ActionsJson(<<ClickLogin>>), ActionsJson(<<StoreCode>>),
              ActionsJson(<<FillCode>>)},
             {Snapshot(TRUE, FormPage), Snapshot(TRUE, ErrorPage)},
             {PatternsJson(TRUE, <<"login form is shown">>, <<"error">>, <<>>)})

\* one iteration of the while loop of runStepWithRetry for the current step
\* and runTestSuite up to the next call, with the transport calls it makes
RouteAttempt ==
    /\ pc = "retry"
    /\ MayAttempt(attempt, maxRetries)
    /\ \E env \in RouteEnvs(state.testSteps[state.currentStepIndex + 1]) :
        LET i == state.currentStepIndex
            stateForAttempt == [state EXCEPT !.results = WithoutStep(state.results, i)]
            r == InvokeStep(stateForAttempt, Mem(memory, memoryFile), env)
        IN  /\ invoked' = [invoked EXCEPT ![i] = @ + 1]
            /\ memory' = r.mem.map
            /\ memoryFile' = r.mem.file
            /\ wire' = Append(wire,
                              Run("plain", i, state.testSteps[i + 1].browserNum,
                                  PlainWire(stateForAttempt, Mem(memory, memoryFile), env)))
            /\ IF r.threw
               THEN pc' = "threw" /\ UNCHANGED <<state, attempt>>
               ELSE IF StepSucceeded(r.st, i)
               THEN LET a == AfterStep(r.st)
                    IN  pc' = a.pc /\ state' = a.st /\ attempt' = 0
               ELSE pc' = "retry" /\ state' = r.st /\ attempt' = attempt + 1
    /\ UNCHANGED <<overlapVars, sessionVars, parseVars, maxRetries,
                   planStoreVars, serverVars, cliVars, evalVars, modeVars>>

RouteInit ==
    /\ PlanStoreIdle /\ ServerIdle /\ CliIdle /\ EvalIdle /\ ModeIdle /\ ParseIdle /\ WireIdle
        /\ SessionIdle /\ OverlapIdle
    /\ RunnerInit({1})
    /\ state \in {TestState(steps, 0, <<>>, <<>>, TRUE, 1) : steps \in RouteScenarios}
    /\ attempt = 0
    /\ pc = "start"
    /\ invoked = [i \in StepIndices |-> 0]
RouteNext == SuiteBegin \/ RouteAttempt \/ SuiteExhausted
RouteSpec == RouteInit /\ [][RouteNext]_vars

\* the client a browser id stands for
ClientOfBrowser(browserNum) == IF browserNum = 2 THEN "mcpClient2" ELSE "mcpClient1"

\* every transport call of the run went to the client of its step's browser
RoutedToDeclared(run) ==
    \A j \in 1..Len(run.events) :
        run.events[j].client \in {"timer", ClientOfBrowser(run.browserNum)}

\* in the executed actions of a result, a fill from memory that follows a
\* store of the code typed the stored code
StoredCodeWasTyped(result) ==
    \A p \in 1..Len(result.executedActions), q \in 1..Len(result.executedActions) :
        (/\ p < q
         /\ result.executedActions[p].kind = "stored"
         /\ result.executedActions[q].tool = "browser_type") =>
            result.executedActions[q].text = StoreCode.value

\* C29: every transport call made while a step executes (page snapshots,
\* actions, special commands) goes to the transport of the browser the
\* step declares and none to the other one, also when consecutive steps of
\* a run target different browsers; what a step stored in memory on one
\* browser is read by a later step on the other.
C29_CallsGoToDeclaredBrowser ==
    /\ \A k \in 1..Len(wire) :
          /\ wire[k].browserNum = state.testSteps[wire[k].step + 1].browserNum
          /\ RoutedToDeclared(wire[k])
    /\ \A k \in 1..Len(state.results) : StoredCodeWasTyped(state.results[k])

\* the code stored by a step on browser 2 was typed by the next step on
\* browser 1, each step calling its own client only
C29_Witness ==
    /\ pc = "done"
    /\ Len(state.testSteps) = 2
    /\ state.testSteps[1].browserNum = 2
    /\ state.testSteps[2].browserNum = 1
    /\ Len(wire) = 2
    /\ \E j \in 1..Len(wire[1].events) : wire[1].events[j].client = "mcpClient2"
    /\ \E j \in 1..Len(wire[2].events) :
          wire[2].events[j] = CallTool("mcpClient1", "browser_type")
    /\ Len(state.results) = 2
    /\ \E p \in 1..Len(state.results[2].executedActions) :
          /\ state.results[2].executedActions[p].tool = "browser_type"
          /\ state.results[2].executedActions[p].text = StoreCode.value

-----------------------------------------------------------------------------
(* References in learned plans (Spec) *)

\* C30: the plan actions learning produces carry no raw protocol
\* reference: every click or fill action recorded into a plan step has no
\* ref, only its element description, role hint and textContent anchor.
C30_NoRawRefInPlan ==
    req.updatedPlanStep /= NoStep =>
        \A k \in 1..Len(req.updatedPlanStep.actions) :
            req.updatedPlanStep.actions[k].type \in {"click", "fill"} =>
                req.updatedPlanStep.actions[k].ref \in {Undef, Null}

-----------------------------------------------------------------------------
(* Memory-store actions in plans and on replay *)

\* the memory_store actions of the plan steps in the plan file
StoredStoreActions ==
    IF planFile = NoPlan THEN {}
    ELSE {act \in UNION {{planFile.steps[s].actions[a] :
                             a \in 1..Len(planFile.steps[s].actions)} :
                         s \in 1..Len(planFile.steps)} :
             act.type = "memory_store"}

\* the request in flight has replayed its plan step and the replay returned
ReplayJustReturned ==
    /\ Replayed
    /\ ~req.planUpdated
    /\ req.pc \in {"fallback", "completed"}

\* the memory_store strings the replay pushed to executedActions
ReplayStores ==
    {i \in 1..Len(req.replay.result.executedActions) :
        req.replay.result.executedActions[i].kind = "stored"}

\* C31: a memory-store action learned with a literal value is recorded with
\* an extraction hint and without the literal, and what a replay writes under
\* its key is the value extracted at replay time (the oracle's answer to the
\* extraction prompt for the replay-time page), never the literal seen when
\* the step was learned.
C31_ReplayStoresExtractedValue ==
    /\ \A act \in StoredStoreActions :
          act.value = Undef /\ act.extractionHint /= <<>>
    /\ ReplayJustReturned =>
          \A i \in ReplayStores :
             LET str == req.replay.result.executedActions[i]
             IN  /\ str.text = req.replayEnv.eresp.content
                 /\ str.text /= StoreCode.value
                 /\ memory[str.key] = str.text
                 /\ memoryFile[str.key] = str.text

C31_Witness ==
    /\ ReplayJustReturned
    /\ req.pc = "completed"
    /\ ReplayStores /= {}
    /\ memory["code"] = "B-42"
    /\ StoredStoreActions /= {}

-----------------------------------------------------------------------------
(* The runner's transports and memory over the life of the web server      *)
(* (SessionSpec): getSharedRunner, resetSharedRunner, /api/init-browsers,  *)
(* /api/reset-runners and the steps run on the shared runner.  A Client    *)
(* field is Null or holds a client that is "unconnected" or "connected".   *)
(* The memory document maps every key to its value, Undef for a key the    *)
(* JSON object does not hold (JSON.stringify leaves out undefined values). *)

\* saveMemoryToFile(memory): the document afterwards; a write that throws is
\* caught and logged
SaveMemoryToFile(file, map, written) == IF written THEN map ELSE file

\* loadMemoryFromFile(): the entries of the document; no file, or a read that
\* throws, gives a new empty Map
LoadMemoryFromFile(file, readable) == IF readable THEN file ELSE EmptyMemory

\* clearMemoryState() of web-ui.ts: '{}' is written over an existing
\* document; a write that throws is caught and logged
ClearMemoryState(file, written) == IF written THEN EmptyMemory ELSE file

\* storeInMemory(key, value): memory.set, then saveMemoryToFile(memory)
StoreAndSave(mem, key, value, written) ==
    LET map == [k \in MemKeys |-> IF k = key THEN value ELSE mem.map[k]]
    IN  Mem(map, SaveMemoryToFile(mem.file, map, written))

\* the two Client fields of a runner
Clients(c1, c2) == [mcpClient1 |-> c1, mcpClient2 |-> c2]

\* `this.mcpClientN = new Client(...); await this.mcpClientN.connect(...)`
Connect(ok) == IF ok THEN "connected" ELSE "unconnected"

\* initializeMCP(): okN tells whether connect of client N resolves
InitializeMCP(c, ok1, ok2) ==
    LET threw1 == c.mcpClient1 = Null /\ ~ok1
        n1 == IF c.mcpClient1 = Null THEN Connect(ok1) ELSE c.mcpClient1
        threw2 == ~threw1 /\ c.mcpClient2 = Null /\ ~ok2
        n2 == IF ~threw1 /\ c.mcpClient2 = Null THEN Connect(ok2)
              ELSE c.mcpClient2
    IN  [clients |-> Clients(n1, n2), threw |-> threw1 \/ threw2]

\* closeMCP(): okN tells whether close of client N resolves
CloseMCP(c, ok1, ok2) ==
    LET threw1 == c.mcpClient1 /= Null /\ ~ok1
        n1 == IF c.mcpClient1 /= Null /\ ok1 THEN Null ELSE c.mcpClient1
        threw2 == ~threw1 /\ c.mcpClient2 /= Null /\ ~ok2
        n2 == IF ~threw1 /\ c.mcpClient2 /= Null /\ ok2 THEN Null
              ELSE c.mcpClient2
    IN  [clients |-> Clients(n1, n2), threw |-> threw1 \/ threw2]

NotInitialized == "MCP client not initialized"
NoClient == "none"

\* getMcpClient(browserNum) on the fields c: the client, or the error thrown
ClientOf(c, browserNum) ==
    LET client == IF browserNum = 1 THEN c.mcpClient1 ELSE c.mcpClient2
    IN  IF client = Null THEN [client |-> NoClient, raised |-> NotInitialized]
        ELSE [client |-> client, raised |-> "none"]

\* mcpClient.callTool on the client getMcpClient gave: it rejects on a client
\* that is not connected, else `answers` tells whether the server answers
CallRejects(got, answers) ==
    got.raised = "none" /\ (got.client /= "connected" \/ ~answers)

\* the module variables of web-ui.ts with the fields of the shared runner
Session(runner, initialized, c, map) ==
    [sharedRunner |-> runner, runnerInitialized |-> initialized,
     clients |-> c, memory |-> map]

TheSession ==
    Session(sharedRunner, runnerInitialized, Clients(mcpClient1, mcpClient2),
            memory)

\* getSharedRunner(): a runner is constructed if there is none (its memory
\* is loaded from the document), initializeMCP is awaited unless
\* runnerInitialized, and the flag is set when it returned
GetSharedRunner(s, file, readable, ok1, ok2) ==
    LET made == IF s.sharedRunner = Null
                THEN Session("runner", s.runnerInitialized, Clients(Null, Null),
                             LoadMemoryFromFile(file, readable))
                ELSE s
        init == InitializeMCP(made.clients, ok1, ok2)
    IN  IF made.runnerInitialized THEN [s |-> made, threw |-> FALSE]
        ELSE [s |-> [made EXCEPT !.clients = init.clients,
                                 !.runnerInitialized = ~init.threw],
              threw |-> init.threw]

\* resetSharedRunner(): closeMCP (an error is caught), then the runner is
\* dropped with its fields
ResetSharedRunner(s) ==
    IF s.sharedRunner = Null THEN s
    ELSE Session(Null, FALSE, Clients(Null, Null), EmptyMemory)

\* what is kept of a call: the operation, its arguments, the value it gave,
\* whether it threw, and what getMcpClient returned or raised in it
Call(op, browserNum, key, value, threw, got) ==
    [op |-> op, browserNum |-> browserNum, key |-> key, value |-> value,
     threw |-> threw, client |-> got.client, raised |-> got.raised]

NotAsked == [client |-> NoClient, raised |-> "none"]

MemValues == {"A-17", "B-42"}
ReadKeys == MemKeys \cup {"token"}

SetSession(s) ==
    /\ sharedRunner' = s.sharedRunner
    /\ runnerInitialized' = s.runnerInitialized
    /\ mcpClient1' = s.clients.mcpClient1
    /\ mcpClient2' = s.clients.mcpClient2
    /\ memory' = s.memory

\* POST /api/init-browsers: resetSharedRunner, clearMemoryState,
\* getSharedRunner; the navigations of initializeBrowser that follow change
\* none of the fields kept here
InitBrowsers ==
    /\ \E cleared, readable, ok1, ok2 \in BOOLEAN :
          LET file == ClearMemoryState(memoryFile, cleared)
              g == GetSharedRunner(ResetSharedRunner(TheSession), file,
                                   readable, ok1, ok2)
          IN  /\ SetSession(g.s)
              /\ memoryFile' = file
              /\ lastCall' = Call("init-browsers", 1, Undef, Undef, g.threw,
                                  NotAsked)
    /\ UNCHANGED <<overlapVars, wireVars, parseVars, maxRetries, suiteVars,
                   planStoreVars, serverVars, cliVars, evalVars, modeVars>>

\* POST /api/reset-runners
ResetRunners ==
    /\ sharedRunner /= Null
    /\ SetSession(ResetSharedRunner(TheSession))
    /\ lastCall' = Call("reset-runners", 1, Undef, Undef, FALSE, NotAsked)
    /\ UNCHANGED <<overlapVars, wireVars, parseVars, maxRetries, memoryFile,
                   suiteVars, planStoreVars, serverVars, cliVars, evalVars,
                   modeVars>>

\* a single-step request on the shared runner whose step stores value under
\* key: getSharedRunner, the page read through getMcpClient(browserNum), then
\* executeMCPAction of the memory_store action
StoreStep(browserNum, key, value) ==
    /\ \E readable, ok1, ok2, answers, written \in BOOLEAN :
          LET g == GetSharedRunner(TheSession, memoryFile, readable, ok1, ok2)
              got == IF g.threw THEN NotAsked
                     ELSE ClientOf(g.s.clients, browserNum)
              threw == g.threw \/ got.raised /= "none" \/ CallRejects(got, answers)
              m == StoreAndSave(Mem(g.s.memory, memoryFile), key, value, written)
          IN  IF threw
              THEN /\ SetSession(g.s)
                   /\ memoryFile' = memoryFile
                   /\ lastCall' = Call("store", browserNum, key, Undef, TRUE, got)
              ELSE /\ SetSession([g.s EXCEPT !.memory = m.map])
                   /\ memoryFile' = m.file
                   /\ lastCall' = Call("store", browserNum, key, value, FALSE, got)
    /\ UNCHANGED <<overlapVars, wireVars, parseVars, maxRetries, suiteVars,
                   planStoreVars, serverVars, cliVars, evalVars, modeVars>>

\* a single-step request on the shared runner whose step reads key:
\* getSharedRunner, the page read, then executeMCPAction of memory_read
ReadStep(browserNum, key) ==
    /\ \E readable, ok1, ok2, answers \in BOOLEAN :
          LET g == GetSharedRunner(TheSession, memoryFile, readable, ok1, ok2)
              got == IF g.threw THEN NotAsked
                     ELSE ClientOf(g.s.clients, browserNum)
              threw == g.threw \/ got.raised /= "none" \/ CallRejects(got, answers)
          IN  /\ SetSession(g.s)
              /\ lastCall' = Call("read", browserNum, key,
                                  IF threw THEN Undef
                                  ELSE ReadFromMemory(Mem(g.s.memory, memoryFile),
                                                      key),
                                  threw, got)
    /\ UNCHANGED <<overlapVars, wireVars, parseVars, maxRetries, memoryFile,
                   suiteVars, planStoreVars, serverVars, cliVars, evalVars,
                   modeVars>>

SessionInit ==
    /\ PlanStoreIdle /\ SuiteIdle /\ ServerIdle /\ CliIdle /\ EvalIdle /\ ModeIdle
    /\ ParseIdle /\ WireIdle /\ SessionIdle /\ OverlapIdle
    /\ RunnerInit({DefaultMaxRetries})
SessionNext ==
    \/ InitBrowsers
    \/ ResetRunners
    \/ \E b \in {1, 2}, key \in MemKeys, value \in MemValues : StoreStep(b, key, value)
    \/ \E b \in {1, 2}, key \in ReadKeys : ReadStep(b, key)
SessionSpec == SessionInit /\ [][SessionNext]_vars

\* the last call was a step that stored, or read, and it returned
StoreReturned == lastCall /= NoCall /\ lastCall.op = "store" /\ ~lastCall.threw
ReadReturned == lastCall /= NoCall /\ lastCall.op = "read" /\ ~lastCall.threw

\* C32: store(key, value) overwrites the value of the key and rewrites the
\* whole document before it returns: after every store the persisted
\* document equals the runner's in-memory map and the key maps to the value
\* stored; read(key) returns the value the map holds, and undefined for a
\* key that was never stored.
C32_StorePersistsWholeMap ==
    /\ StoreReturned =>
          /\ memory[lastCall.key] = lastCall.value
          /\ memoryFile = memory
    /\ ReadReturned =>
          lastCall.value = (IF lastCall.key \in MemKeys THEN memory[lastCall.key]
                            ELSE Undef)

\* the step taken constructs the shared runner and stores nothing
ConstructsRunner ==
    /\ sharedRunner' /= Null
    /\ lastCall'.op \in {"init-browsers", "read"}
    /\ sharedRunner = Null \/ lastCall'.op = "init-browsers"

\* the last call was /api/init-browsers and it left a shared runner
FreshSession ==
    lastCall /= NoCall /\ lastCall.op = "init-browsers" /\ sharedRunner /= Null

\* C33: a runner constructed after earlier stores starts with exactly the
\* persisted entries, and after the fresh-session reset (/api/init-browsers)
\* the shared runner has an empty memory: no entry stored before the reset
\* can be read after it.
C33_ResetLeavesEmptyMemory ==
    /\ [][ConstructsRunner => memory' = memoryFile']_vars
    /\ [](FreshSession => \A k \in MemKeys : memory[k] = Undef)

-----------------------------------------------------------------------------
(* One runner used for suite runs (SuiteRunSpec), as run.ts and runTest of *)
(* web-ui.ts construct it: runTestSuite with its try/finally, and the page *)
(* reads, actions and initializeMCP calls made on the runner around it.    *)

TheClients == Clients(mcpClient1, mcpClient2)

SetClients(c) ==
    /\ mcpClient1' = c.mcpClient1
    /\ mcpClient2' = c.mcpClient2

\* initializeBrowser(browserNum, startingUrl) after its initializeMCP
\* returned: the navigations go through getMcpClient(browserNum)
BrowserOpened(c, browserNum, answers) ==
    LET got == ClientOf(c, browserNum)
    IN  got.raised = "none" /\ ~CallRejects(got, answers)

\* the error a call ended with, for a call that asks for no client itself
ErrorOf(error) == [client |-> NoClient, raised |-> error]

\* runTestSuite(testFilePath, browserNum, startingUrl): parseTestFile before
\* the try, initializeBrowser or initializeMCP and the steps inside it,
\* closeMCP in the finally
RunTestSuite(browserNum) ==
    /\ \E parses, withUrl, ok1, ok2, answers, stepsThrow, closed1, closed2 \in BOOLEAN :
          LET init == InitializeMCP(TheClients, ok1, ok2)
              opened == BrowserOpened(init.clients, browserNum, answers)
              close == CloseMCP(init.clients, closed1, closed2)
              error == IF close.threw THEN "close"
                       ELSE IF init.threw THEN "connect"
                       ELSE IF withUrl /\ ~opened THEN "navigate"
                       ELSE IF stepsThrow THEN "step"
                       ELSE "none"
          IN  IF ~parses
              THEN /\ UNCHANGED <<mcpClient1, mcpClient2>>
                   /\ lastCall' = Call("runTestSuite", browserNum, Undef, Undef,
                                       TRUE, ErrorOf("parse"))
              ELSE /\ SetClients(close.clients)
                   /\ lastCall' = Call("runTestSuite", browserNum, Undef, Undef,
                                       error /= "none", ErrorOf(error))
    /\ UNCHANGED <<overlapVars, wireVars, parseVars, sharedRunner,
                   runnerInitialized, runnerVars, suiteVars, planStoreVars,
                   serverVars, cliVars, evalVars, modeVars>>

\* a call of initializeMCP() on the runner
InitializeMCPCall ==
    /\ \E ok1, ok2 \in BOOLEAN :
          LET init == InitializeMCP(TheClients, ok1, ok2)
          IN  /\ SetClients(init.clients)
              /\ lastCall' = Call("initializeMCP", 1, Undef, Undef, init.threw,
                                  NotAsked)
    /\ UNCHANGED <<overlapVars, wireVars, parseVars, sharedRunner,
                   runnerInitialized, runnerVars, suiteVars, planStoreVars,
                   serverVars, cliVars, evalVars, modeVars>>

\* readPage(sessionId, browserNum): getMcpClient, then browser_snapshot; an
\* error of either leaves the function
PageRead(browserNum) ==
    /\ \E answers \in BOOLEAN :
          LET got == ClientOf(TheClients, browserNum)
          IN  lastCall' = Call("readPage", browserNum, Undef, Undef,
                               got.raised /= "none" \/ CallRejects(got, answers),
                               got)
    /\ UNCHANGED <<overlapVars, wireVars, parseVars, mcpClient1, mcpClient2,
                   sharedRunner, runnerInitialized, runnerVars, suiteVars,
                   planStoreVars, serverVars, cliVars, evalVars, modeVars>>

\* the toolName executeMCPAction chooses for the action type
ToolName(type) ==
    CASE type = "click" -> "browser_click"
      [] type = "fill" -> "browser_type"
      [] type = "navigate" -> "browser_navigate"

\* executeMCPAction of a click, fill or navigate on browserNum: getMcpClient
\* is called before the try, a rejected callTool becomes an error string
BrowserAction(browserNum, type) ==
    /\ \E answers \in BOOLEAN :
          LET got == ClientOf(TheClients, browserNum)
          IN  lastCall' = Call("action", browserNum, ToolName(type),
                               IF got.raised /= "none" THEN Undef
                               ELSE IF CallRejects(got, answers) THEN "error"
                               ELSE "ok",
                               got.raised /= "none", got)
    /\ UNCHANGED <<overlapVars, wireVars, parseVars, mcpClient1, mcpClient2,
                   sharedRunner, runnerInitialized, runnerVars, suiteVars,
                   planStoreVars, serverVars, cliVars, evalVars, modeVars>>

SuiteRunInit ==
    /\ PlanStoreIdle /\ SuiteIdle /\ ServerIdle /\ CliIdle /\ EvalIdle /\ ModeIdle
    /\ ParseIdle /\ WireIdle /\ SessionIdle /\ OverlapIdle
    /\ RunnerInit({DefaultMaxRetries})
SuiteRunNext ==
    \/ \E b \in {1, 2} : RunTestSuite(b)
    \/ InitializeMCPCall
    \/ \E b \in {1, 2} : PageRead(b)
    \/ \E b \in {1, 2}, type \in {"click", "fill", "navigate"} :
          BrowserAction(b, type)
SuiteRunSpec == SuiteRunInit /\ [][SuiteRunNext]_vars

\* runTestSuite was the last call made on the runner
SuiteEnded == lastCall /= NoCall /\ lastCall.op = "runTestSuite"

\* C34: after runTestSuite returns or throws, both transports are closed and
\* cleared, and a page read or browser action made next, without a new
\* initializeMCP, raises the 'MCP client not initialized' error instead of
\* using a connection that was left.
C34_SuiteEndClearsTransports ==
    /\ [](SuiteEnded => mcpClient1 = Null /\ mcpClient2 = Null)
    /\ [][(SuiteEnded /\ lastCall'.op \in {"readPage", "action"})
             => lastCall'.raised = NotInitialized]_vars

-----------------------------------------------------------------------------
(* Replay of a memory-store action that extracts its value (ExtractSpec):  *)
(* replayPlanStep on a plan step whose first action is a memory_store with *)
(* an extraction hint, with or without a recorded extractionRegex,         *)
(* followed by a click.                                                    *)

\* the extractionRegex values a plan file can hold for the action: none, one
\* that does not compile, one that matches the order code on the login
\* page, one that matches nothing
ExtractionRegexes == {Undef, "(", "A-17", "Z-00"}

\* the memory_store action as a plan holds it
ExtractingStore(regex) ==
    PlanAction([StoreCode EXCEPT !.value = Undef], Undef, Undef,
               DefaultHint("code"), regex)

ExtractingStep(regex) ==
    PlanStep(StoreLine, "action",
             <<ExtractingStore(regex), EnrichAction(ClickLogin, LoginPage)>>,
             NoCommand, NoVerification, 500, 2, "now", 0)

\* the answers of browser and oracle a replay of the step is run against
ExtractEnvs ==
    {ReplayEnv(snap, fails, eresp, Snapshot(TRUE, BlankPage)) :
        snap \in {Snapshot(TRUE, LoginPage), Snapshot(TRUE, FormPage)},
        fails \in FailureSets(2),
        eresp \in ExtractResponses}

\* replayPlanStep(planStep, browserNum) on the trial
ExtractReplay ==
    /\ outcome = NoResult
    /\ LET r == ReplayPlanStep(trial.planStep, 2, Mem(memory, memoryFile),
                               trial.env)
       IN  /\ outcome' = r
           /\ memory' = r.mem.map
           /\ memoryFile' = r.mem.file
    /\ UNCHANGED <<overlapVars, sessionVars, wireVars, parseVars, trial,
                   maxRetries, planStoreVars, suiteVars, serverVars, cliVars,
                   evalVars>>

ExtractInit ==
    /\ PlanStoreIdle /\ SuiteIdle /\ ServerIdle /\ CliIdle /\ EvalIdle /\ ParseIdle
    /\ WireIdle /\ SessionIdle /\ OverlapIdle
    /\ maxRetries = DefaultMaxRetries
    /\ \E m \in {Mem(EmptyMemory, EmptyMemory),
                 StoreInMemory(Mem(EmptyMemory, EmptyMemory), "code", "C-03")} :
          memory = m.map /\ memoryFile = m.file
    /\ trial \in {[planStep |-> ExtractingStep(regex), env |-> env,
                   before |-> before] :
                     regex \in ExtractionRegexes, env \in ExtractEnvs,
                     before \in {Undef, "C-03"}}
    /\ trial.before = memory["code"]
    /\ outcome = NoResult
ExtractNext == ExtractReplay
ExtractSpec == ExtractInit /\ [][ExtractNext]_vars

\* the recorded regex of the trial yields a value on the replay-time page
RegexYields ==
    /\ trial.planStep.actions[1].extractionRegex /= Undef
    /\ PageMatches(trial.planStep.actions[1].extractionRegex, trial.env.snap.text)

\* the oracle's answer to the extraction prompt is a non-empty text
OracleYields == trial.env.eresp.kind = "text" /\ trial.env.eresp.content /= ""

\* C35: on replay of a memory-store action with an extraction hint the
\* recorded extraction regex is tried first: the oracle is asked for the
\* value only when no regex is recorded, it is invalid or it does not match;
\* when neither gives a non-empty value the replay fails at that action,
\* nothing is stored under the key and no later action of the step is
\* executed.
C35_RegexBeforeOracle ==
    outcome /= NoResult =>
       /\ "extract" \in outcome.calls => ~RegexYields
       /\ RegexYields => memory["code"] = "A-17"
       /\ (~RegexYields /\ OracleYields) => memory["code"] = trial.env.eresp.content
       /\ (~RegexYields /\ ~OracleYields) =>
             /\ ~outcome.success
             /\ memory["code"] = trial.before
             /\ memoryFile["code"] = trial.before
             /\ outcome.result.executedActions = <<>>

C35_Witness ==
    /\ outcome /= NoResult
    /\ trial.planStep.actions[1].extractionRegex = "("
    /\ "extract" \in outcome.calls
    /\ ~OracleYields
    /\ ~outcome.success
    /\ trial.before = "C-03" /\ memory["code"] = "C-03"

-----------------------------------------------------------------------------
(* resolveElementRef on page snapshots (ResolveSpec) *)

\* longest page snapshot (number of lines) handed to resolveElementRef
MaxPageLines == 2

\* snapshot lines: the anchor text with a role and a ref in both orders,
\* without role, in another case, the element description in its place,
\* the text without a ref, a ref without the text, and two refs on a line
SnapshotLines ==
    { <<Tok("role", "button"), Tok("text", "Login"), Tok("ref", "e1")>>,
      <<Tok("text", "Login"), Tok("ref", "e2")>>,
      <<Tok("ref", "e3"), Tok("text", "LOGIN")>>,
      <<Tok("role", "Button"), Tok("ref", "e4"), Tok("text", "Login")>>,
      <<Tok("text", "Sign in"), Tok("ref", "e5")>>,
      <<Tok("ref", "e6"), Tok("text", "Sign in")>>,
      <<Tok("text", "Login")>>,
      <<Tok("role", "button"), Tok("ref", "e8")>>,
      <<Tok("ref", "e7"), Tok("text", "Login"), Tok("ref", "e9")>> }

SnapshotPages == SeqsUpTo(SnapshotLines, MaxPageLines)

\* click actions of a plan anchored on the text Login: with and without a
\* role hint, the element description equal to the anchor, different, absent
AnchoredActions ==
    {PlanAction(RawAction("click", element, "e0", Undef, Undef, Undef, Undef),
                "Login", role, <<>>, Undef) :
        element \in {"Login", "Sign in", Undef}, role \in {Undef, "button"}}

\* resolveElementRef(action, pageContent) on the trial
Resolve ==
    /\ outcome = NoResult
    /\ outcome' = [ref |-> ResolveElementRef(trial.action, trial.page)]
    /\ UNCHANGED <<overlapVars, sessionVars, wireVars, parseVars, trial,
                   runnerVars, planStoreVars, suiteVars, serverVars, cliVars,
                   evalVars>>

ResolveInit ==
    /\ PlanStoreIdle /\ SuiteIdle /\ ServerIdle /\ CliIdle /\ EvalIdle /\ ParseIdle
    /\ WireIdle /\ SessionIdle /\ OverlapIdle
    /\ RunnerInit({DefaultMaxRetries})
    /\ trial \in {[action |-> a, page |-> p] : a \in AnchoredActions,
                                                p \in SnapshotPages}
    /\ outcome = NoResult
ResolveNext == Resolve
ResolveSpec == ResolveInit /\ [][ResolveNext]_vars

\* the first strategy of resolveElementRef whose pattern matches the line
\* for the action (1, 2: role with the anchor text; 3, 4: the anchor text;
\* 5, 6: the element description), 7 when none does
StrategyOf(ln, a) ==
    LET N == 1..Len(ln)
        Role(i) == ln[i].k = "role" /\ Lower(ln[i].v) = Lower(a.role)
        Text(j, t) == ln[j].k = "text" /\ Lower(ln[j].v) = Lower(t)
        Ref(k) == ln[k].k = "ref"
        elem == a.element /= Undef /\ a.element /= a.textContent
    IN  IF a.role /= Undef /\ \E i, j, k \in N :
              i < j /\ j < k /\ Role(i) /\ Text(j, a.textContent) /\ Ref(k)
        THEN 1
        ELSE IF a.role /= Undef /\ \E i, j, k \in N :
              i < k /\ k < j /\ Role(i) /\ Text(j, a.textContent) /\ Ref(k)
        THEN 2
        ELSE IF \E j, k \in N : j < k /\ Text(j, a.textContent) /\ Ref(k) THEN 3
        ELSE IF \E j, k \in N : k < j /\ Text(j, a.textContent) /\ Ref(k) THEN 4
        ELSE IF elem /\ \E j, k \in N : j < k /\ Text(j, a.element) /\ Ref(k) THEN 5
        ELSE IF elem /\ \E j, k \in N : k < j /\ Text(j, a.element) /\ Ref(k) THEN 6
        ELSE 7

\* the line holds the marker [ref=r]
HoldsRef(ln, r) == \E k \in 1..Len(ln) : ln[k].k = "ref" /\ ln[k].v = r

\* the line holds the text t, in any case
HoldsText(ln, t) ==
    t /= Undef /\ \E j \in 1..Len(ln) : ln[j].k = "text" /\ Lower(ln[j].v) = Lower(t)

\* C36: resolveElementRef tries its strategies in a fixed order (role with
\* the anchor text as role..text..ref, then role..ref..text; anchor text
\* before ref; ref before anchor text; then the same two with the element
\* description when it differs from the anchor) and returns a ref captured
\* by the first strategy that matches on one line, on the first such line;
\* it returns null exactly when no strategy matches, and the ref is never
\* taken from a line that does not hold the matched text.
C36_FirstStrategyWins ==
    outcome /= NoResult =>
       LET a == trial.action
           p == trial.page
           best == MinOf({StrategyOf(p[l], a) : l \in 1..Len(p)} \cup {7})
       IN  /\ outcome.ref = Null <=> best = 7
           /\ outcome.ref /= Null =>
                 \E l \in 1..Len(p) :
                    /\ HoldsRef(p[l], outcome.ref)
                    /\ StrategyOf(p[l], a) = best
                    /\ \A l2 \in 1..(l - 1) : StrategyOf(p[l2], a) > best
                    /\ HoldsText(p[l], IF best <= 4 THEN a.textContent
                                       ELSE a.element)

\* the text strategy matches on the first line, the role strategy on the
\* second, and the ref of the second line is returned
C36_Witness ==
    /\ outcome /= NoResult
    /\ Len(trial.page) = 2
    /\ StrategyOf(trial.page[1], trial.action) = 3
    /\ StrategyOf(trial.page[2], trial.action) = 1
    /\ outcome.ref = "e1"

-----------------------------------------------------------------------------
(* A successful replay and the plan file (Spec) *)

\* C37: when the replay of a learned plan step succeeds, runSingleStepWithPlan
\* returns the replay's result and reports no plan update, and the plan step
\* stored under the key (actions, verification, learnedAt, failCount) is the
\* one that was loaded: the plan file is left as it was.
C37_SuccessfulReplayKeepsPlan ==
    (Replayed /\ req.replay.success /\ req.pc = "completed") =>
        /\ ~req.planUpdated
        /\ req.updatedPlanStep = NoStep
        /\ ~req.saved
        /\ req.result = req.replay.result
        /\ Stored(req.instruction) = req.planStep
        /\ planFile = req.plan

\* a step that had failed once before was replayed with success and is
\* still stored with failCount 1
C37_Witness ==
    /\ Replayed /\ req.replay.success /\ req.pc = "completed"
    /\ req.planStep.failCount = 1
    /\ Stored(req.instruction).failCount = 1
    /\ Stored(req.instruction).actions /= <<>>

-----------------------------------------------------------------------------
(* Connections of the shared runner (SessionSpec) *)

\* getMcpClient returned a client in the last call
ClientReturned ==
    lastCall /= NoCall /\ lastCall.raised = "none" /\ lastCall.client /= NoClient

\* C38: whenever getMcpClient(b) returns a client, the connect call of that
\* client has completed successfully; after an initializeMCP call that threw
\* while connecting, a later initializeMCP call establishes the connection
\* instead of taking the client for initialized.
C38_ReturnedClientIsConnected ==
    /\ ClientReturned => lastCall.client = "connected"
    /\ runnerInitialized => mcpClient1 = "connected" /\ mcpClient2 = "connected"

-----------------------------------------------------------------------------
(* Plan-run requests that overlap in the web server (OverlapSpec).         *)
(* runPlanSingleInstruction is started without being awaited, so a second  *)
(* request runs while the first one waits for its replay or its learning   *)
(* run.  Handlers 1 and 2 run the same line of the same scenario; handler  *)
(* 3 is a learn request for another line.  Every handler yields at its     *)
(* awaits only: the plan is loaded before the first await, and load,       *)
(* upsert and save after the last one are made without yielding.           *)

\* the requests in flight: two plan runs and one learn request
Handlers == {1, 2, 3}
PlanRunners == {1, 2}
OtherLearner == CHOOSE h \in Handlers : h \notin PlanRunners

\* the plan step a successful learning pass of the login line captured
LearnedLogin ==
    RunSingleStepLearning(
        ParseBrowserPrefix(LoginLine).cleanInstruction, 1,
        Mem(EmptyMemory, EmptyMemory),
        LearnEnv(Snapshot(TRUE, LoginPage), ActionsJson(<<ClickLogin>>), {},
                 Snapshot(TRUE, FormPage),
                 PatternsJson(TRUE, <<"login form is shown">>, <<"error">>, <<>>))
    ).planStep

\* the plan file before the requests: the login line learned, failed fc times
PlanWith(fc) ==
    UpsertPlanStep(EmptyPlan, [LearnedLogin EXCEPT !.originalInstruction = LoginLine,
                                                   !.failCount = fc])

\* the answers explored for the replay of the login step: the Login button
\* is on the page, or it is gone
OverlapReplayEnvs ==
    {ReplayEnv(Snapshot(TRUE, p), {}, ExtractThrows, Snapshot(TRUE, FormPage)) :
        p \in {LoginPage, BlankPage}}

\* the answers explored for the learning runs: the oracle proposes the click
\* and the page afterwards shows the form, or an error
OverlapLearnEnvs ==
    {LearnEnv(Snapshot(TRUE, LoginPage), ActionsJson(<<ClickLogin>>), {},
              Snapshot(TRUE, p),
              PatternsJson(TRUE, <<"login form is shown">>, <<"error">>, <<>>)) :
        p \in {FormPage, ErrorPage}}

\* runPlanSingleInstruction up to the first await of runSingleStepWithPlan
OverlapStart(h) ==
    /\ h \in PlanRunners
    /\ handlers[h].pc = "idle"
    /\ LET loaded == LoadPlan(planFile)
           planStep == FindPlanStep(loaded, LoginLine)
       IN  handlers' = [handlers EXCEPT ![h] =
               Req("plan", PlanMode(planStep, FALSE), LoginLine,
                   ParseBrowserPrefix(LoginLine).browserNum, loaded, planStep,
                   NoEnv, NoResult, NoResult, NoStep, FALSE, FALSE, 0)]
    /\ UNCHANGED <<sessionVars, wireVars, parseVars, runnerVars, suiteVars,
                   planStoreVars, serverVars, cliVars, evalVars, modeVars>>

\* runSingleStepWithPlan of handler h from the return of replayPlanStep on
OverlapReplay(h) ==
    /\ h \in PlanRunners
    /\ handlers[h].pc = "replay"
    /\ \E env \in OverlapReplayEnvs :
          LET r == ReplayPlanStep(handlers[h].planStep, handlers[h].browserNum,
                                  Mem(memory, memoryFile), env)
              seen == [handlers[h] EXCEPT !.replayEnv = env, !.replay = r]
          IN  /\ memory' = r.mem.map
              /\ memoryFile' = r.mem.file
              /\ handlers' = [handlers EXCEPT ![h] =
                     IF r.threw THEN [seen EXCEPT !.pc = "failed"]
                     ELSE IF ReplaySucceeded(r)
                     THEN [seen EXCEPT !.pc = "completed", !.result = r.result]
                     ELSE [seen EXCEPT !.pc = "fallback"]]
    /\ UNCHANGED <<sessionVars, wireVars, parseVars, maxRetries, suiteVars,
                   planStoreVars, serverVars, cliVars, evalVars, modeVars>>

\* runSingleStepWithPlan of handler h from the return of the fallback
\* learning run on, and the handler's plan update: loadPlan, upsertPlanStep,
\* savePlan
OverlapRelearn(h) ==
    /\ h \in PlanRunners
    /\ handlers[h].pc = "fallback"
    /\ LET clean == ParseBrowserPrefix(handlers[h].instruction).cleanInstruction
       IN  \E env \in OverlapLearnEnvs, written \in BOOLEAN :
             LET r == RunSingleStepLearning(clean, handlers[h].browserNum,
                                            Mem(memory, memoryFile), env)
                 updatedPlanStep ==
                     [FallbackPlanStep(r.planStep, handlers[h].planStep)
                         EXCEPT !.originalInstruction = handlers[h].instruction]
             IN  /\ memory' = r.mem.map
                 /\ memoryFile' = r.mem.file
                 /\ planFile' = SavePlan(planFile,
                                    UpsertPlanStep(PlanOrNew(LoadPlan(planFile)),
                                                   updatedPlanStep),
                                    written)
                 /\ handlers' = [handlers EXCEPT ![h] =
                        [@ EXCEPT !.pc = "completed", !.result = r.result,
                                  !.updatedPlanStep = updatedPlanStep,
                                  !.planUpdated = TRUE, !.saved = written,
                                  !.learnRuns = 1]]
    /\ UNCHANGED <<sessionVars, wireVars, parseVars, maxRetries, suiteVars,
                   planStoreVars, req, oracle, finished, cliVars, evalVars,
                   modeVars>>

\* runLearnSingleInstruction for the scroll line, from the return of its
\* learning run on: the captured step is upserted into the plan loaded then
OverlapLearnOther ==
    /\ handlers[OtherLearner].pc = "idle"
    /\ \E written \in BOOLEAN :
          LET clean == ParseBrowserPrefix(ScrollLine).cleanInstruction
              r == RunSingleStepLearning(clean, 1, Mem(memory, memoryFile),
                       LearnEnv(Snapshot(TRUE, BlankPage), ActionsNoJson, {},
                                Snapshot(TRUE, BlankPage), PatternsNoJson))
              planStep == [r.planStep EXCEPT !.originalInstruction = ScrollLine]
          IN  /\ planFile' = SavePlan(planFile,
                                 UpsertPlanStep(PlanOrNew(LoadPlan(planFile)),
                                                planStep),
                                 written)
              /\ handlers' = [handlers EXCEPT ![OtherLearner] =
                     Req("learn", "completed", ScrollLine, 1, NoPlan, NoStep,
                         NoEnv, NoResult, r.result, planStep, FALSE, written, 1)]
    /\ UNCHANGED <<sessionVars, wireVars, parseVars, runnerVars, suiteVars,
                   planStoreVars, req, oracle, finished, cliVars, evalVars,
                   modeVars>>

OverlapInit ==
    /\ PlanStoreIdle /\ SuiteIdle /\ CliIdle /\ EvalIdle /\ ModeIdle /\ ParseIdle
    /\ WireIdle /\ SessionIdle
    /\ RunnerInit({DefaultMaxRetries})
    /\ planFile \in {PlanWith(fc) : fc \in 0..MaxFailCount}
    /\ req = IdleReq /\ oracle = {} /\ finished = 0
    /\ handlers = [h \in Handlers |-> IdleReq]
OverlapNext ==
    \/ \E h \in PlanRunners : OverlapStart(h)
    \/ \E h \in PlanRunners : OverlapReplay(h)
    \/ \E h \in PlanRunners : OverlapRelearn(h)
    \/ OverlapLearnOther
OverlapSpec == OverlapInit /\ [][OverlapNext]_vars

\* handler h fell back to learning and saved the plan
FellBack(h) ==
    /\ handlers[h].pc = "completed"
    /\ handlers[h].planUpdated
    /\ handlers[h].saved

\* both plan runs have finished after a failed replay of the step they had
\* loaded with the same failCount: neither started after the other's save
BothFellBack ==
    /\ FellBack(1) /\ FellBack(2)
    /\ handlers[1].planStep.failCount = handlers[2].planStep.failCount

\* C39: when two plan-run requests for the same instruction of the same
\* scenario overlap and both replays fail, each fallback is counted: the
\* failCount stored after both have finished is two greater than before;
\* and a plan step learned meanwhile for another key is not lost.
C39_OverlappingFallbacksCounted ==
    /\ BothFellBack =>
          Stored(LoginLine).failCount = handlers[1].planStep.failCount + 2
    /\ (handlers[OtherLearner].pc = "completed" /\ handlers[OtherLearner].saved) =>
          Stored(ScrollLine) = handlers[OtherLearner].updatedPlanStep

-----------------------------------------------------------------------------
(* The action-error abort of a replay (AbortSpec) *)

\* a page with the elements the recorded actions name
ErrorsPage ==
    LoginPage \o << <<Tok("role", "link"), Tok("text", "Show errors"),
                      Tok("ref", "e7")>> >>

\* the click, fill and navigate actions the oracle proposed when the step
\* was learned
AbortRawActions ==
    {RawAction("click", e, r, Undef, Undef, Undef, Undef) :
        <<e, r>> \in {<<"Login", "e1">>, <<"Show errors", "e7">>}}
    \cup {RawAction("fill", "Code field", "e4", v, Undef, Undef, Undef) :
        v \in {"A-17", "error"}}
    \cup {FillCode}
    \cup {RawAction("navigate", Undef, Undef, Undef, Undef, u, Undef) :
        u \in {"https://app.test/", "https://app.test/errors"}}

\* a learned step of two such actions
AbortStep(a1, a2) ==
    PlanStep(StoreLine, "action",
             <<EnrichAction(a1, ErrorsPage), EnrichAction(a2, ErrorsPage)>>,
             NoCommand, NoVerification, 500, 2, "now", 0)

\* replayPlanStep(planStep, browserNum) on the trial
AbortReplay ==
    /\ outcome = NoResult
    /\ LET r == ReplayPlanStep(trial.planStep, 2, Mem(memory, memoryFile),
                               trial.env)
       IN  /\ outcome' = r
           /\ memory' = r.mem.map
           /\ memoryFile' = r.mem.file
    /\ UNCHANGED <<overlapVars, sessionVars, wireVars, parseVars, trial,
                   maxRetries, planStoreVars, suiteVars, serverVars, cliVars,
                   evalVars>>

AbortInit ==
    /\ PlanStoreIdle /\ SuiteIdle /\ ServerIdle /\ CliIdle /\ EvalIdle /\ ParseIdle
    /\ WireIdle /\ SessionIdle /\ OverlapIdle
    /\ maxRetries = DefaultMaxRetries
    /\ \E m \in {Mem(EmptyMemory, EmptyMemory),
                 StoreInMemory(Mem(EmptyMemory, EmptyMemory), "code", "A-17"),
                 StoreInMemory(Mem(EmptyMemory, EmptyMemory), "code", "error")} :
          memory = m.map /\ memoryFile = m.file
    /\ trial \in {[planStep |-> AbortStep(a1, a2),
                   env |-> ReplayEnv(Snapshot(TRUE, ErrorsPage), fails,
                                     ExtractThrows, Snapshot(TRUE, FormPage)),
                   before |-> before] :
                     a1 \in AbortRawActions, a2 \in {ClickLogin, FillCode},
                     fails \in FailureSets(1) \cup FailureSets(2),
                     before \in {Undef, "A-17", "error"}}
    /\ trial.before = memory["code"]
    /\ outcome = NoResult
AbortNext == AbortReplay
AbortSpec == AbortInit /\ [][AbortNext]_vars

\* the replay returned from its action loop at action i with the string
\* executeMCPAction gave for it as the actual result
AbortedAt(i) ==
    /\ outcome /= NoResult
    /\ ~outcome.threw
    /\ ~outcome.success
    /\ Len(outcome.result.executedActions) = i
    /\ outcome.result.actualResult = outcome.result.executedActions[i]

\* C40: during replay the action-error abort is taken only when a click,
\* fill or navigate tool invocation actually failed: an action whose
\* invocation succeeds never aborts the replay, whatever its element
\* description, typed text or URL contains.
C40_AbortOnlyOnFailedInvocation ==
    \A i \in 1..2 : AbortedAt(i) => i \in trial.env.fails

=============================================================================
